---- MODULE Spec2Model ----
(***************************************************************************)
(* Model of the Zudoku sudoku game (src/script.js, class SudokuGame).      *)
(* Where a method name is defined twice in the class body the later        *)
(* definition is the one JavaScript keeps; the model follows that one.     *)
(***************************************************************************)
EXTENDS Integers, Sequences, FiniteSets, TLC

\* ---------------------------------------------------------------- geometry
N == 9
B == 3
Idx == 0..(N - 1)
Digits == 1..N
Cells == 0..(N * N - 1)
rowOf(i) == i \div N
colOf(i) == i % N

Min(a, b) == IF a < b THEN a ELSE b
Max(a, b) == IF a > b THEN a ELSE b

\* A grid is a function row -> column -> 0..9, 0 meaning empty.
FromRows(rows) == [r \in Idx |-> [c \in Idx |-> rows[r + 1][c + 1]]]
emptyGrid == [r \in Idx |-> [c \in Idx |-> 0]]
noGivens == [r \in Idx |-> [c \in Idx |-> FALSE]]
setCell(g, i, v) == [g EXCEPT ![rowOf(i)][colOf(i)] = v]
cellAt(g, i) == g[rowOf(i)][colOf(i)]
emptyCount(g) == Cardinality({i \in Cells : cellAt(g, i) = 0})

\* ------------------------------------------------------------- validators
\* isValidMove: the cell (row, col) itself is skipped in all three scans.
isValidMove(g, row, col, number) ==
    /\ \A c \in Idx : ~(c # col /\ g[row][c] = number)
    /\ \A r \in Idx : ~(r # row /\ g[r][col] = number)
    /\ LET blockRow == (row \div B) * B
           blockCol == (col \div B) * B IN
       \A r \in blockRow..(blockRow + B - 1) : \A c \in blockCol..(blockCol + B - 1) :
           ~((r # row \/ c # col) /\ g[r][c] = number)

\* isValidMoveForGrid: the definition in force scans every cell of the row,
\* the column and the box, the cell (row, col) included.
isValidMoveForGrid(g, row, col, num) ==
    /\ \A c \in Idx : g[row][c] # num
    /\ \A r \in Idx : g[r][col] # num
    /\ LET boxRow == (row \div B) * B
           boxCol == (col \div B) * B IN
       \A r \in boxRow..(boxRow + B - 1) : \A c \in boxCol..(boxCol + B - 1) :
           g[r][c] # num

\* validateGameState: TRUE iff no row, column or block repeats a digit.
validateGameState(g) ==
    /\ \A row \in Idx : \A c1, c2 \in Idx :
           (c1 < c2 /\ g[row][c1] # 0) => g[row][c1] # g[row][c2]
    /\ \A col \in Idx : \A r1, r2 \in Idx :
           (r1 < r2 /\ g[r1][col] # 0) => g[r1][col] # g[r2][col]
    /\ \A blockRow, blockCol \in 0..(B - 1) :
           LET blk == {i \in Cells : rowOf(i) \div B = blockRow /\ colOf(i) \div B = blockCol} IN
           \A i, j \in blk : (i < j /\ cellAt(g, i) # 0) => cellAt(g, i) # cellAt(g, j)

\* ------------------------------------------------- backtracking searches
\* The recursive searches are run as the machine the JavaScript engine runs:
\* a stack with one frame per active invocation that sits at an empty cell
\* (e: the cell, num: its loop variable) and the shared grid they all write.
\* st is the position of the running invocation: "call" entering a new
\* invocation, "loop" inside the for-num loop of the top frame, "ret" just
\* returned to the top frame, "done" returned from the outermost one.
StepExp == 21

\* first empty cell at or after linear position pos in row-major order
\* (the nested row/col scan of the solvers, the row/col + 1 walk over filled
\* cells of countSolutions); -1 if there is none
firstEmptyFrom(g, pos) ==
    LET E == {i \in pos..(N * N - 1) : cellAt(g, i) = 0} IN
    IF E = {} THEN -1 ELSE CHOOSE i \in E : \A j \in E : i <= j

\* (variant: the loop takes its next candidate without asking the validator)
nextValidUnchecked(own, g, e, num) == IF num > N THEN N + 1 ELSE num

\* the for (num ...) loop up to its next accepted candidate: the least
\* n >= num the validator accepts at cell e, N + 1 if the loop runs out
nextValid(own, g, e, num) ==
    LET V == {n \in num..N : IF own THEN isValidMove(g, rowOf(e), colOf(e), n)
                                    ELSE isValidMoveForGrid(g, rowOf(e), colOf(e), n)} IN
    IF V = {} THEN N + 1 ELSE CHOOSE n \in V : \A m \in V : n <= m

top(s) == s.stack[Len(s.stack)]
pop(s) == SubSeq(s.stack, 1, Len(s.stack) - 1)

\* (variant: a failed branch returns without grid[row][col] = 0)
solveStepNoReset(own, s) ==
    IF s.st = "call" THEN
        LET e == firstEmptyFrom(s.grid, 0) IN
        IF e = -1 THEN [s EXCEPT !.ok = TRUE, !.st = "ret"]
        ELSE [s EXCEPT !.stack = Append(@, [e |-> e, num |-> 1]), !.st = "loop"]
    ELSE IF s.st = "loop" THEN
        LET n == nextValid(own, s.grid, top(s).e, top(s).num) IN
        IF n > N THEN [s EXCEPT !.stack = pop(s), !.ok = FALSE, !.st = "ret"]
        ELSE [s EXCEPT !.grid = setCell(@, top(s).e, n),
                       !.stack[Len(s.stack)].num = n, !.st = "call"]
    ELSE IF s.stack = <<>> THEN [s EXCEPT !.st = "done"]
    ELSE IF s.ok THEN [s EXCEPT !.stack = pop(s)]
    ELSE [s EXCEPT !.stack[Len(s.stack)].num = @ + 1, !.st = "loop"]

\* one step of solveSudoku (own = TRUE, validator isValidMove) or of
\* solveSudokuForGrid (own = FALSE, validator isValidMoveForGrid)
solveStep(own, s) ==
    IF s.st = "call" THEN
        LET e == firstEmptyFrom(s.grid, 0) IN
        IF e = -1 THEN [s EXCEPT !.ok = TRUE, !.st = "ret"]
        ELSE [s EXCEPT !.stack = Append(@, [e |-> e, num |-> 1]), !.st = "loop"]
    ELSE IF s.st = "loop" THEN
        LET n == nextValid(own, s.grid, top(s).e, top(s).num) IN
        IF n > N THEN [s EXCEPT !.stack = pop(s), !.ok = FALSE, !.st = "ret"]
        ELSE [s EXCEPT !.grid = setCell(@, top(s).e, n),
                       !.stack[Len(s.stack)].num = n, !.st = "call"]
    ELSE IF s.stack = <<>> THEN [s EXCEPT !.st = "done"]
    ELSE IF s.ok THEN [s EXCEPT !.stack = pop(s)]
    ELSE [s EXCEPT !.grid = setCell(@, top(s).e, 0),
                   !.stack[Len(s.stack)].num = @ + 1, !.st = "loop"]

\* (variant: the early termination tests solutionCount > maxSolutions)
countStepLateStop(s) ==
    IF s.st = "call" THEN
        IF s.count > s.max THEN [s EXCEPT !.st = "ret"]
        ELSE LET e == firstEmptyFrom(s.grid, s.pos) IN
             IF e = -1 THEN [s EXCEPT !.count = @ + 1, !.st = "ret"]
             ELSE [s EXCEPT !.stack = Append(@, [e |-> e, num |-> 1]), !.st = "loop"]
    ELSE IF s.st = "loop" THEN
        LET n == nextValid(FALSE, s.grid, top(s).e, top(s).num) IN
        IF n > N THEN [s EXCEPT !.stack = pop(s), !.st = "ret"]
        ELSE [s EXCEPT !.grid = setCell(@, top(s).e, n),
                       !.stack[Len(s.stack)].num = n,
                       !.pos = top(s).e + 1, !.st = "call"]
    ELSE IF s.stack = <<>> THEN [s EXCEPT !.st = "done"]
    ELSE IF s.count > s.max
         THEN [s EXCEPT !.grid = setCell(@, top(s).e, 0), !.stack = pop(s)]
         ELSE [s EXCEPT !.grid = setCell(@, top(s).e, 0),
                        !.stack[Len(s.stack)].num = @ + 1, !.st = "loop"]

\* (variant: the early termination returns before grid[row][col] = 0)
countStepNoRestore(s) ==
    IF s.st = "call" THEN
        IF s.count >= s.max THEN [s EXCEPT !.st = "ret"]
        ELSE LET e == firstEmptyFrom(s.grid, s.pos) IN
             IF e = -1 THEN [s EXCEPT !.count = @ + 1, !.st = "ret"]
             ELSE [s EXCEPT !.stack = Append(@, [e |-> e, num |-> 1]), !.st = "loop"]
    ELSE IF s.st = "loop" THEN
        LET n == nextValid(FALSE, s.grid, top(s).e, top(s).num) IN
        IF n > N THEN [s EXCEPT !.stack = pop(s), !.st = "ret"]
        ELSE [s EXCEPT !.grid = setCell(@, top(s).e, n),
                       !.stack[Len(s.stack)].num = n,
                       !.pos = top(s).e + 1, !.st = "call"]
    ELSE IF s.stack = <<>> THEN [s EXCEPT !.st = "done"]
    ELSE IF s.count >= s.max
         THEN [s EXCEPT !.stack = pop(s)]
         ELSE [s EXCEPT !.grid = setCell(@, top(s).e, 0),
                        !.stack[Len(s.stack)].num = @ + 1, !.st = "loop"]

\* one step of countSolutions(grid, row, col, maxSolutions); pos = 9 row + col
countStep(s) ==
    IF s.st = "call" THEN
        IF s.count >= s.max THEN [s EXCEPT !.st = "ret"]
        ELSE LET e == firstEmptyFrom(s.grid, s.pos) IN
             IF e = -1 THEN [s EXCEPT !.count = @ + 1, !.st = "ret"]
             ELSE [s EXCEPT !.stack = Append(@, [e |-> e, num |-> 1]), !.st = "loop"]
    ELSE IF s.st = "loop" THEN
        LET n == nextValid(FALSE, s.grid, top(s).e, top(s).num) IN
        IF n > N THEN [s EXCEPT !.stack = pop(s), !.st = "ret"]
        ELSE [s EXCEPT !.grid = setCell(@, top(s).e, n),
                       !.stack[Len(s.stack)].num = n,
                       !.pos = top(s).e + 1, !.st = "call"]
    ELSE IF s.stack = <<>> THEN [s EXCEPT !.st = "done"]
    ELSE IF s.count >= s.max
         THEN [s EXCEPT !.grid = setCell(@, top(s).e, 0), !.stack = pop(s)]
         ELSE [s EXCEPT !.grid = setCell(@, top(s).e, 0),
                        !.stack[Len(s.stack)].num = @ + 1, !.st = "loop"]

Step(s) ==
    IF s.kind = "countSolutions" THEN countStep(s)
    ELSE solveStep(s.kind = "solveSudoku", s)

\* run an invocation to its return: up to 2^k steps, none once it is done
RECURSIVE Run(_, _)
Run(s, k) ==
    IF s.st = "done" THEN s
    ELSE IF k = 0 THEN Step(s)
    ELSE LET h == Run(s, k - 1) IN
         IF h.st = "done" THEN h ELSE Run(h, k - 1)

start(kind, g, max) ==
    [kind |-> kind, grid |-> g, stack |-> <<>>, st |-> "call", pos |-> 0,
     ok |-> FALSE, count |-> 0, max |-> max]

\* what a finished search hands back
solved(s) == [ok |-> s.ok, grid |-> s.grid]
counted(s) == [solutionCount |-> s.count, grid |-> s.grid]

\* solveSudoku() on this.grid: [ok |-> returned value, grid |-> grid left]
solveSudoku(g) == solved(Run(start("solveSudoku", g, 0), StepExp))

\* solveSudokuForGrid(grid)
solveSudokuForGrid(g) == solved(Run(start("solveSudokuForGrid", g, 0), StepExp))

\* countSolutions(grid, 0, 0, maxSolutions) with solutionCount = 0 before
countSolutions(g, maxSolutions) ==
    counted(Run(start("countSolutions", g, maxSolutions), StepExp))

\* hasUniqueSolution() for this.grid = g (the count runs on a copy)
hasUniqueSolution(g) == countSolutions(g, 2).solutionCount = 1

\* ------------------------------------------------------------ data tables
\* generateSimplePuzzle: const completeSudoku
completeSudoku == FromRows(<<
    <<5,3,4,6,7,8,9,1,2>>, <<6,7,2,1,9,5,3,4,8>>, <<1,9,8,3,4,2,5,6,7>>,
    <<8,5,9,7,6,1,4,2,3>>, <<4,2,6,8,5,3,7,9,1>>, <<7,1,3,9,2,4,8,5,6>>,
    <<9,6,1,5,3,7,2,8,4>>, <<2,8,7,4,1,9,6,3,5>>, <<3,4,5,2,8,6,1,7,9>>>>)

\* useFallbackPuzzle: const fallbackPuzzles and the one solution assigned
fallbackPuzzles ==
    [easy |-> FromRows(<<
        <<5,3,0,0,7,0,0,0,0>>, <<6,0,0,1,9,5,0,0,0>>, <<0,9,8,0,0,0,0,6,0>>,
        <<8,0,0,0,6,0,0,0,3>>, <<4,0,0,8,0,3,0,0,1>>, <<7,0,0,0,2,0,0,0,6>>,
        <<0,6,0,0,0,0,2,8,0>>, <<0,0,0,4,1,9,0,0,5>>, <<0,0,0,0,8,0,0,7,9>>>>),
     medium |-> FromRows(<<
        <<0,0,0,6,0,0,0,0,0>>, <<0,0,0,0,9,5,0,0,0>>, <<0,9,8,0,0,0,0,6,0>>,
        <<8,0,0,0,6,0,0,0,0>>, <<4,0,0,8,0,0,0,0,1>>, <<0,0,0,0,2,0,0,0,0>>,
        <<0,6,0,0,0,0,2,8,0>>, <<0,0,0,4,1,9,0,0,0>>, <<0,0,0,0,8,0,0,0,0>>>>)]

fallbackSolution == FromRows(<<
    <<5,3,4,6,7,8,9,1,2>>, <<6,7,2,1,9,5,3,4,8>>, <<1,9,8,3,4,2,5,6,7>>,
    <<8,5,9,7,6,1,4,2,3>>, <<4,2,6,8,5,3,7,9,1>>, <<7,1,3,9,2,4,8,5,6>>,
    <<9,6,1,5,3,7,2,8,4>>, <<2,8,7,4,1,9,6,3,5>>, <<3,4,5,2,8,6,1,7,9>>>>)

\* loadDailyChallenges
ChallengeIds == {"speed-demon", "perfectionist", "note-master", "zen-master"}

dailyChallenges == [id \in ChallengeIds |->
    IF id = "speed-demon" THEN
        [puzzle |-> FromRows(<<
            <<5,3,0,0,7,0,0,0,0>>, <<6,0,0,1,9,5,0,0,0>>, <<0,9,8,0,0,0,0,6,0>>,
            <<8,0,0,0,6,0,0,0,3>>, <<4,0,0,8,0,3,0,0,1>>, <<7,0,0,0,2,0,0,0,6>>,
            <<0,6,0,0,0,0,2,8,0>>, <<0,0,0,4,1,9,0,0,5>>, <<0,0,0,0,8,0,0,7,9>>>>),
         solution |-> FromRows(<<
            <<5,3,4,6,7,8,9,1,2>>, <<6,7,2,1,9,5,3,4,8>>, <<1,9,8,3,4,2,5,6,7>>,
            <<8,5,9,7,6,1,4,2,3>>, <<4,2,6,8,5,3,7,9,1>>, <<7,1,3,9,2,4,8,5,6>>,
            <<9,6,1,5,3,7,2,8,4>>, <<2,8,7,4,1,9,6,3,5>>, <<3,4,5,2,8,6,1,7,9>>>>)]
    ELSE IF id = "perfectionist" THEN
        [puzzle |-> FromRows(<<
            <<0,0,0,6,0,0,4,0,0>>, <<7,0,0,0,3,0,0,0,0>>, <<0,0,0,0,0,9,0,8,0>>,
            <<0,0,0,0,0,0,5,0,1>>, <<0,0,3,0,0,0,0,0,0>>, <<0,0,0,0,0,0,0,2,8>>,
            <<4,0,0,0,0,0,0,3,0>>, <<0,0,0,0,0,0,0,0,0>>, <<0,0,0,0,0,0,0,0,0>>>>),
         solution |-> FromRows(<<
            <<3,8,2,6,1,5,4,9,7>>, <<7,4,9,8,3,2,1,6,5>>, <<5,1,6,4,7,9,2,8,3>>,
            <<8,9,4,2,6,3,5,7,1>>, <<2,6,3,9,5,1,8,4,7>>, <<1,5,7,4,8,6,3,2,8>>,
            <<4,7,1,5,2,8,6,3,9>>, <<6,3,8,1,9,7,4,5,2>>, <<9,2,5,3,4,6,7,1,8>>>>)]
    ELSE IF id = "note-master" THEN
        [puzzle |-> FromRows(<<
            <<1,0,0,6,0,8,0,0,0>>, <<4,0,0,0,0,0,0,0,0>>, <<7,0,0,0,0,0,0,0,0>>,
            <<2,0,0,0,0,0,0,0,0>>, <<5,0,0,0,0,0,0,0,0>>, <<8,0,0,0,0,0,0,0,0>>,
            <<3,0,0,0,0,0,0,0,0>>, <<6,0,0,0,0,0,0,0,0>>, <<9,0,0,0,0,0,0,0,0>>>>),
         solution |-> FromRows(<<
            <<1,2,3,6,4,8,5,7,9>>, <<4,5,6,1,7,9,2,8,3>>, <<7,8,9,2,5,3,1,4,6>>,
            <<2,3,1,4,6,5,8,9,7>>, <<5,6,4,8,9,7,3,1,2>>, <<8,9,7,3,1,2,4,6,5>>,
            <<3,1,2,5,8,4,6,9,7>>, <<6,4,5,9,2,1,7,3,8>>, <<9,7,8,3,6,5,2,4,1>>>>)]
    ELSE
        [puzzle |-> FromRows(<<
            <<8,0,0,0,0,0,0,0,0>>, <<0,0,3,6,0,0,0,0,0>>, <<0,7,0,0,9,0,2,0,0>>,
            <<0,5,0,0,0,7,0,0,0>>, <<0,0,0,0,4,5,7,0,0>>, <<0,0,0,1,0,0,0,3,0>>,
            <<0,0,1,0,0,0,0,6,8>>, <<0,0,8,5,0,0,0,1,0>>, <<0,9,0,0,0,0,4,0,0>>>>),
         solution |-> FromRows(<<
            <<8,1,2,7,5,3,6,4,9>>, <<9,4,3,6,8,2,1,7,5>>, <<6,7,5,4,9,1,2,8,3>>,
            <<1,5,4,2,3,7,8,9,6>>, <<3,6,9,8,4,5,7,2,1>>, <<2,8,7,1,6,9,5,3,4>>,
            <<5,2,1,9,7,4,3,6,8>>, <<4,3,8,5,2,6,9,1,7>>, <<7,9,6,3,1,8,4,5,2>>>>)]]

\* loadPuzzleDatabase: the hard list is empty (its entries are commented out)
puzzleDatabase ==
    [easy |-> <<
        [puzzle |-> FromRows(<<
            <<5,3,0,0,7,0,0,0,0>>, <<6,0,0,1,9,5,0,0,0>>, <<0,9,8,0,0,0,0,6,0>>,
            <<8,0,0,0,6,0,0,0,3>>, <<4,0,0,8,0,3,0,0,1>>, <<7,0,0,0,2,0,0,0,6>>,
            <<0,6,0,0,0,0,2,8,0>>, <<0,0,0,4,1,9,0,0,5>>, <<0,0,0,0,8,0,0,7,9>>>>),
         solution |-> FromRows(<<
            <<5,3,4,6,7,8,9,1,2>>, <<6,7,2,1,9,5,3,4,8>>, <<1,9,8,3,4,2,5,6,7>>,
            <<8,5,9,7,6,1,4,2,3>>, <<4,2,6,8,5,3,7,9,1>>, <<7,1,3,9,2,4,8,5,6>>,
            <<9,6,1,5,3,7,2,8,4>>, <<2,8,7,4,1,9,6,3,5>>, <<3,4,5,2,8,6,1,7,9>>>>)],
        [puzzle |-> FromRows(<<
            <<0,0,3,0,2,0,6,0,0>>, <<9,0,0,3,0,5,0,0,1>>, <<0,0,1,8,0,6,4,0,0>>,
            <<0,0,8,1,0,2,9,0,0>>, <<7,0,0,0,0,0,0,0,8>>, <<0,0,6,7,0,8,2,0,0>>,
            <<0,0,2,6,0,9,5,0,0>>, <<8,0,0,2,0,3,0,0,9>>, <<0,0,5,0,1,0,3,0,0>>>>),
         solution |-> FromRows(<<
            <<4,8,3,9,2,1,6,5,7>>, <<9,6,7,3,4,5,8,2,1>>, <<2,5,1,8,7,6,4,9,3>>,
            <<5,4,8,1,3,2,9,7,6>>, <<7,2,9,5,6,4,1,3,8>>, <<1,3,6,7,9,8,2,4,5>>,
            <<3,7,2,6,8,9,5,1,4>>, <<8,1,4,2,5,3,7,6,9>>, <<6,9,5,4,1,7,3,8,2>>>>)]>>,
     medium |-> <<
        [puzzle |-> FromRows(<<
            <<0,0,0,6,0,0,4,0,0>>, <<7,0,0,0,0,3,6,0,0>>, <<0,0,0,0,9,1,0,8,0>>,
            <<0,0,0,0,0,0,0,0,0>>, <<0,5,0,1,8,0,0,0,3>>, <<0,0,0,3,0,6,0,4,5>>,
            <<0,4,0,2,0,0,0,6,0>>, <<9,0,3,0,0,0,0,0,0>>, <<0,2,0,0,0,0,1,0,0>>>>),
         solution |-> FromRows(<<
            <<2,8,1,6,3,5,4,9,7>>, <<7,9,5,8,4,3,6,1,2>>, <<6,3,4,7,9,1,5,8,2>>,
            <<3,1,2,5,7,4,8,6,9>>, <<4,5,6,1,8,2,9,7,3>>, <<8,7,9,3,2,6,7,4,5>>,
            <<5,4,8,2,1,9,3,6,7>>, <<9,6,3,4,5,7,2,8,1>>, <<7,2,6,9,3,8,1,5,4>>>>)]>>,
     advanced |-> <<
        [puzzle |-> FromRows(<<
            <<0,0,0,0,0,0,0,0,0>>, <<0,0,0,0,0,3,0,8,5>>, <<0,0,1,0,2,0,0,0,0>>,
            <<0,0,0,5,0,7,0,0,0>>, <<0,0,4,0,0,0,1,0,0>>, <<0,9,0,0,0,0,0,0,0>>,
            <<5,0,0,0,0,0,0,7,3>>, <<0,0,2,0,1,0,0,0,0>>, <<0,0,0,0,4,0,0,0,9>>>>),
         solution |-> FromRows(<<
            <<4,8,3,9,6,1,7,2,5>>, <<7,2,9,4,6,3,1,8,5>>, <<6,5,1,7,2,8,4,9,3>>,
            <<2,1,8,5,9,7,3,6,4>>, <<3,6,4,8,5,2,1,9,7>>, <<9,7,5,1,3,4,8,6,2>>,
            <<5,4,6,2,8,9,7,1,3>>, <<8,3,2,6,1,5,9,4,7>>, <<1,9,7,3,4,6,2,5,8>>>>)]>>,
     hard |-> <<>>]


\* --------------------------------------------------------------- iteration
\* The long for-loops are run round by round in the same way, for up to
\* 2^LoopExp rounds.
LoopExp == 7
RECURSIVE Loop(_, _)

\* ------------------------------------------------------------- randomness
\* Math.random() is a stream of draws; a draw is k / RandDen with k in
\* 0..RandDen-1, and the stream repeats with period RandPeriod.
RandDen == 2
RandPeriod == 1
RandomStreams == [1..RandPeriod -> 0..(RandDen - 1)]
random(rnd, t) == rnd[((t - 1) % RandPeriod) + 1]

swap(a, i, j) == [a EXCEPT ![i] = a[j], ![j] = a[i]]

\* one round of the loop of shuffleArray, at JavaScript index i and draw t:
\* j = Math.floor(Math.random() * (i + 1)); swap shuffled[i], shuffled[j]
shuffleStep(s) ==
    IF s.i <= 0 THEN [s EXCEPT !.st = "done"]
    ELSE LET j == (random(s.rnd, s.t) * (s.i + 1)) \div RandDen IN
         [s EXCEPT !.shuffled = swap(@, s.i + 1, j + 1), !.i = @ - 1, !.t = @ + 1]

\* shuffleArray(array): returns a shuffled copy, array itself is untouched
shuffleArray(array, rnd) ==
    Loop([kind |-> "shuffleArray", st |-> "loop", shuffled |-> array,
          i |-> Len(array) - 1, rnd |-> rnd, t |-> 1], LoopExp).shuffled

\* Array.prototype.sort with a comparator keyA - keyB (stable), keys 0..N-1
RECURSIVE stableSort(_, _, _)
stableSort(seq, key, k) ==
    IF k > N - 1 THEN <<>>
    ELSE SelectSeq(seq, LAMBDA x : key[x] = k) \o stableSort(seq, key, k + 1)

\* ------------------------------------------------------ complete solutions
\* fillBlock(row, col): numbers = [1..9]; the shuffled copy shuffleArray
\* returns is discarded, so the block is filled with 1..9 in order
fillBlock(g, row, col) ==
    [r \in Idx |-> [c \in Idx |->
        IF r \in row..(row + B - 1) /\ c \in col..(col + B - 1)
        THEN (r - row) * B + (c - col) + 1
        ELSE g[r][c]]]

\* generateCompleteSolution(): the grid it leaves in this.grid
generateCompleteSolution ==
    solveSudoku(fillBlock(fillBlock(fillBlock(emptyGrid, 0, 0), B, B), 2 * B, 2 * B)).grid

\* ----------------------------------------------------------- difficulties
\* this.difficulties: the number of givens aimed at
difficulties == [easy |-> 30, medium |-> 23, hard |-> 17]

\* const targetRemovalCount = 81 - targetGivenCount; carving is followed for
\* at most MaxRemovals removals
MaxRemovals == 16
targetRemovalCount(d) == Min(N * N - difficulties[d], MaxRemovals)

givenMask(g) == [r \in Idx |-> [c \in Idx |-> g[r][c] # 0]]

\* ------------------------------------------------------------- validation
isPuzzleSolvableForGrid(g) ==
    \A i \in Cells : cellAt(g, i) = 0 =>
        \E num \in Digits : isValidMoveForGrid(g, rowOf(i), colOf(i), num)

isPuzzleSolvable(g) == isPuzzleSolvableForGrid(g)

blockCells(blockRow, blockCol) ==
    {i \in Cells : rowOf(i) \div B = blockRow /\ colOf(i) \div B = blockCol}

validateAllNumbersCanBePlaced(g) ==
    \A blockRow, blockCol \in 0..(B - 1) : \A num \in Digits :
        \/ \E i \in blockCells(blockRow, blockCol) : cellAt(g, i) = num
        \/ \E i \in blockCells(blockRow, blockCol) :
               cellAt(g, i) = 0 /\ isValidMove(g, rowOf(i), colOf(i), num)

findExistingPositions(g, number) == {i \in Cells : cellAt(g, i) = number}

findRequiredBlocksForNumber(existingPositions) ==
    {b \in (0..(B - 1)) \X (0..(B - 1)) :
        ~\E pos \in existingPositions : <<rowOf(pos) \div B, colOf(pos) \div B>> = b}

canPlaceNumberInSpecificBlock(g, blockRow, blockCol, existingPositions) ==
    \E i \in blockCells(blockRow, blockCol) :
        /\ cellAt(g, i) = 0
        /\ \A pos \in existingPositions :
               /\ rowOf(pos) # rowOf(i)
               /\ colOf(pos) # colOf(i)
               /\ ~(rowOf(pos) \div B = blockRow /\ colOf(pos) \div B = blockCol)

validateNumberPlacementConstraints(g) ==
    \A num \in Digits :
        LET existingPositions == findExistingPositions(g, num) IN
        \A b \in findRequiredBlocksForNumber(existingPositions) :
            canPlaceNumberInSpecificBlock(g, b[1], b[2], existingPositions)

validatePuzzleCompletely(g, d) ==
    /\ validateGameState(g)
    /\ isPuzzleSolvable(g)
    /\ validateAllNumbersCanBePlaced(g)
    /\ validateNumberPlacementConstraints(g)
    /\ ~(d # "hard" /\ ~hasUniqueSolution(g))

\* ---------------------------------------------------------------- carving
\* A puzzle is [grid, solution, givenCells]; the carving routines also report
\* removed, the cells whose removal they kept, in order.
allPositions == [k \in 1..(N * N) |-> k - 1]

\* one round of the removal loop of removeNumbersForDifficulty, at index i;
\* positions is 0..80 in order (the copy shuffleArray returns is discarded)
removalStep(s) ==
    IF ~(s.i < N * N /\ Len(s.removed) < targetRemovalCount(s.d) /\ s.i < s.maxAttempts)
    THEN [s EXCEPT !.st = "done"]
    ELSE IF cellAt(s.grid, s.i) = 0 THEN [s EXCEPT !.i = @ + 1]
    ELSE LET t == setCell(s.grid, s.i, 0)
             keep == IF s.d = "hard" THEN isPuzzleSolvable(t)
                     ELSE hasUniqueSolution(t) /\ isPuzzleSolvable(t) IN
         IF keep THEN [s EXCEPT !.grid = t, !.removed = Append(@, s.i), !.i = @ + 1]
         ELSE [s EXCEPT !.i = @ + 1]

removalLoop(g, d, maxAttempts) ==
    Loop([kind |-> "removalLoop", st |-> "loop", grid |-> g, d |-> d, i |-> 0,
          removed |-> <<>>, maxAttempts |-> maxAttempts], LoopExp)

\* the for (attempt ...) loop: cur is this.grid and its removals after the
\* attempts so far, best the bestAttempt (grid = emptyGrid stands for null)
RECURSIVE removalAttempts(_, _, _, _, _, _)
\* the end of one attempt, a being what its removal loop left
scoreAttempt(sol, d, attempt, a, best, bestScore) ==
    LET diff == Len(a.removed) - targetRemovalCount(d)
        score == targetRemovalCount(d) - (IF diff < 0 THEN -diff ELSE diff)
        now == [grid |-> a.grid, removed |-> a.removed, found |-> TRUE] IN
    IF score > bestScore
    THEN removalAttempts(sol, d, attempt + 1, now, now, score)
    ELSE removalAttempts(sol, d, attempt + 1, now, best, bestScore)

removalAttempts(sol, d, attempt, cur, best, bestScore) ==
    IF attempt >= 5 THEN IF best.found THEN best ELSE cur
    ELSE scoreAttempt(sol, d, attempt,
                      removalLoop(sol, d, IF d = "hard" THEN 120
                                          ELSE Min(targetRemovalCount(d) * 2, 60)),
                      best, bestScore)

\* one round of the removal loop of generateFallbackPuzzle, at index i;
\* positions is 0..80 in order here too
fallbackStep(s) ==
    IF ~(s.i < N * N /\ Len(s.removed) < targetRemovalCount(s.d))
    THEN [s EXCEPT !.st = "done"]
    ELSE IF cellAt(s.grid, s.i) # 0
         THEN [s EXCEPT !.grid = setCell(@, s.i, 0), !.removed = Append(@, s.i), !.i = @ + 1]
         ELSE [s EXCEPT !.i = @ + 1]

fallbackLoop(g, d) ==
    Loop([kind |-> "fallbackLoop", st |-> "loop", grid |-> g, d |-> d, i |-> 0,
          removed |-> <<>>], LoopExp)

\* a carved grid as a puzzle
puzzle(a, sol, mask, route) ==
    [grid |-> a.grid, solution |-> sol, givenCells |-> mask, removed |-> a.removed,
     route |-> route]

masked(p) == [p EXCEPT !.givenCells = givenMask(p.grid)]

fallbackFrom(sol, d) ==
    masked(puzzle(fallbackLoop(sol, d), sol, noGivens, "generateFallbackPuzzle"))

generateFallbackPuzzle(d) == fallbackFrom(generateCompleteSolution, d)

\* removeNumbersForDifficulty() on a game whose solution is sol
\* the end of removeNumbersForDifficulty(), a being the best attempt
validated(a, sol, mask, d) ==
    IF ~validatePuzzleCompletely(a.grid, d) THEN generateFallbackPuzzle(d)
    ELSE puzzle(a, sol, mask, "removeNumbersForDifficulty")

noAttempt == [grid |-> emptyGrid, removed |-> <<>>, found |-> FALSE]

removeNumbersForDifficulty(sol, mask, d) ==
    validated(removalAttempts(sol, d, 0, noAttempt, noAttempt, 0), sol, mask, d)

\* useFallbackPuzzle(): grid and solution are replaced, givenCells is not
useFallbackPuzzle(p, d) ==
    [p EXCEPT !.grid = IF d = "medium" THEN fallbackPuzzles.medium
                       ELSE fallbackPuzzles.easy,
              !.solution = fallbackSolution,
              !.removed = <<>>,
              !.route = "useFallbackPuzzle"]

\* generateSimplePuzzle(): givenCells is recomputed from the carved grid, so
\* the mask removeNumbersForDifficulty passes through plays no part
revalidated(p, d) ==
    IF ~validatePuzzleCompletely(p.grid, d) THEN useFallbackPuzzle(p, d) ELSE p

generateSimplePuzzle(d) ==
    revalidated(masked(removeNumbersForDifficulty(completeSudoku, noGivens, d)), d)

\* -------------------------------------------------------- varied generator
removalPatterns == <<"random", "blockwise", "rowwise", "columnwise", "spiral",
                     "checkerboard">>
Patterns == {removalPatterns[k] : k \in 1..Len(removalPatterns)}

inGrid(row, col) == row >= 0 /\ row < N /\ col >= 0 /\ col < N

directions == <<<<0, 1>>, <<1, 0>>, <<0, -1>>, <<-1, 0>>>>

\* the inner for (j ...) loop of generateSpiralPositions: j more steps in
\* direction sp.dir (0-based), collecting the unvisited cells stepped on
RECURSIVE spiralWalk(_, _)
spiralWalk(sp, j) ==
    IF j = 0 THEN sp
    ELSE LET row == sp.row + directions[sp.dir + 1][1]
             col == sp.col + directions[sp.dir + 1][2]
             fresh == inGrid(row, col)
                      /\ ~\E k \in 1..Len(sp.positions) : sp.positions[k] = row * N + col IN
         spiralWalk([sp EXCEPT !.row = row, !.col = col,
                                !.positions = IF fresh THEN Append(@, row * N + col) ELSE @],
                    j - 1)

spiralLeg(sp, steps) == [spiralWalk(sp, steps) EXCEPT !.dir = (@ + 1) % 4]

\* the while (positions.length < 81) loop
RECURSIVE spiralLoop(_, _)
spiralLoop(sp, steps) ==
    IF Len(sp.positions) >= N * N THEN sp.positions
    ELSE spiralLoop(spiralLeg(spiralLeg(sp, steps), steps), steps + 1)

generateSpiralPositions ==
    LET center == 4 IN
    spiralLoop([positions |-> <<center * N + center>>, row |-> center,
                col |-> center, dir |-> 0], 1)

generateRemovalPositions(pattern, rnd) ==
    IF pattern = "random" THEN shuffleArray(allPositions, rnd)
    ELSE IF pattern = "blockwise" THEN
        stableSort(shuffleArray(allPositions, rnd),
                   [i \in Cells |-> (rowOf(i) \div B) * B + (colOf(i) \div B)], 0)
    ELSE IF pattern = "rowwise" THEN stableSort(allPositions, [i \in Cells |-> rowOf(i)], 0)
    ELSE IF pattern = "columnwise" THEN stableSort(allPositions, [i \in Cells |-> colOf(i)], 0)
    ELSE IF pattern = "spiral" THEN generateSpiralPositions
    ELSE IF pattern = "checkerboard" THEN
        SelectSeq(allPositions, LAMBDA i : (rowOf(i) + colOf(i)) % 2 = 0)
    ELSE shuffleArray(allPositions, rnd)

\* one round of the for (const pos of positions) loop of createVariedPuzzle
variedStep(s) ==
    IF s.i > Len(s.positions) \/ Len(s.removed) >= targetRemovalCount(s.d)
    THEN [s EXCEPT !.st = "done"]
    ELSE LET t == setCell(s.grid, s.positions[s.i], 0) IN
         IF hasUniqueSolution(t)
         THEN [s EXCEPT !.grid = t, !.removed = Append(@, s.positions[s.i]), !.i = @ + 1]
         ELSE [s EXCEPT !.i = @ + 1]

variedLoop(g, d, positions) ==
    Loop([kind |-> "variedLoop", st |-> "loop", grid |-> g, d |-> d, i |-> 1,
          positions |-> positions, removed |-> <<>>], LoopExp)

LoopStep(s) ==
    IF s.kind = "shuffleArray" THEN shuffleStep(s)
    ELSE IF s.kind = "removalLoop" THEN removalStep(s)
    ELSE IF s.kind = "fallbackLoop" THEN fallbackStep(s)
    ELSE variedStep(s)

\* run a loop to its exit: up to 2^k rounds, none once it is done
Loop(s, k) ==
    IF s.st = "done" THEN s
    ELSE IF k = 0 THEN LoopStep(s)
    ELSE LET h == Loop(s, k - 1) IN
         IF h.st = "done" THEN h ELSE Loop(h, k - 1)

\* createVariedPuzzle(difficulty) on this.grid = g; ok is its return value
varied(a, g, d) ==
    LET actualGivenCount == N * N - Len(a.removed) IN
    [grid |-> a.grid, solution |-> g, givenCells |-> givenMask(a.grid),
     removed |-> a.removed, route |-> "createVariedPuzzle",
     ok |-> 10 * actualGivenCount >= 9 * difficulties[d]]

createVariedPuzzle(g, d, pattern, rnd) ==
    varied(variedLoop(g, d, generateRemovalPositions(pattern, rnd)), g, d)

\* generateVariedPuzzle(difficulty): up to 5 attempts, each on a fresh
\* generateCompleteSolution(); every attempt sees the same random stream
RECURSIVE variedAttempts(_, _, _, _)
retry(a, d, pattern, rnd, attempt) ==
    IF a.ok \/ attempt >= 5 THEN a
    ELSE variedAttempts(d, pattern, rnd, attempt + 1)

variedAttempts(d, pattern, rnd, attempt) ==
    retry(createVariedPuzzle(generateCompleteSolution, d, pattern, rnd),
          d, pattern, rnd, attempt)

generateVariedPuzzle(d, pattern, rnd) == variedAttempts(d, pattern, rnd, 1)

\* generateReliablePuzzle(); createVariedPuzzle has replaced givenCells by then
orSimple(v, d) ==
    IF ~v.ok THEN generateSimplePuzzle(d)
    ELSE [grid |-> v.grid, solution |-> v.solution, givenCells |-> v.givenCells,
          removed |-> v.removed, route |-> v.route]

generateReliablePuzzle(d, pattern, rnd) ==
    orSimple(generateVariedPuzzle(d, pattern, rnd), d)

\* ------------------------------------------------------------------ state
VARIABLES
    grid,           \* this.grid
    solution,       \* this.solution
    givenCells,     \* this.givenCells
    difficulty,     \* this.difficulty
    selectedCell,   \* this.selectedCell: a cell index, -1 for null
    moveHistory,    \* this.moveHistory
    historyIndex,   \* this.historyIndex
    moveCount,      \* this.moveCount
    errorCount,     \* this.errorCount
    hintCount,      \* this.hintCount
    isGameWon,      \* this.isGameWon
    isPaintMode,    \* this.isPaintMode
    paintNumber,    \* this.paintNumber: a digit, 0 for null
    pendingLoads,   \* setTimeout callbacks of newGame() not yet run
    lastCall,       \* the last method invoked from outside and what it returned
    carving,        \* the clue removal in progress: its routine, position and counters
    uncaughtError,  \* a handler has ended in an uncaught TypeError
    notes,          \* this.notes: the set of digits noted in each cell
    timer,          \* this.timer is not null
    isPaused,       \* this.isPaused
    orphanTimers,   \* an interval of startTimer/resumeTimer runs that this.timer lost
    autoSaveInterval, \* this.autoSaveInterval is not null
    savedGame       \* the item 'sudoku-game-state' of localStorage

vars == <<grid, solution, givenCells, difficulty, selectedCell, moveHistory,
          historyIndex, moveCount, errorCount, hintCount, isGameWon,
          isPaintMode, paintNumber, pendingLoads, lastCall, carving, uncaughtError,
          notes, timer, isPaused, orphanTimers, autoSaveInterval, savedGame>>

\* the clock, the auto-save and the storage
sessionVars == <<timer, isPaused, orphanTimers, autoSaveInterval, savedGame>>

playVars == <<selectedCell, moveHistory, historyIndex, moveCount, errorCount,
              hintCount, isGameWon, isPaintMode, paintNumber, pendingLoads>>

Difficulties == {"easy", "medium", "hard"}

\* record of a call: op the method, before the grid it was given, args its
\* numeric arguments, ok / count / grid what it returned or left behind
call(op, before, args, ok, count, after) ==
    [op |-> op, before |-> before, args |-> args, ok |-> ok, count |-> count,
     after |-> after]

noCall == call("none", emptyGrid, <<>>, FALSE, 0, emptyGrid)

\* no clue removal in progress
noCarving ==
    [routine |-> "none", pc |-> "idle", d |-> "easy", len |-> 0, attempt |-> 0,
     rounds |-> 0, i |-> 0, removedCount |-> 0]

\* Array(9).fill().map(() => Array(9).fill().map(() => new Set()))
noNotes == [r \in Idx |-> [c \in Idx |-> {}]]

\* localStorage without the item 'sudoku-game-state'; with it, hours is the
\* time since lastSaved
noSavedGame ==
    [saved |-> FALSE, hours |-> 0, grid |-> emptyGrid, notes |-> noNotes,
     givenCells |-> noGivens, difficulty |-> "easy", moveCount |-> 0,
     errorCount |-> 0, hintCount |-> 0]

\* the fields as the constructor leaves them, before it calls newGame()
constructed ==
    /\ solution = emptyGrid
    /\ givenCells = noGivens
    /\ difficulty = "easy"
    /\ selectedCell = -1
    /\ moveHistory = <<>>
    /\ historyIndex = -1
    /\ moveCount = 0
    /\ errorCount = 0
    /\ hintCount = 0
    /\ isGameWon = FALSE
    /\ isPaintMode = FALSE
    /\ paintNumber = 0
    /\ lastCall = noCall
    /\ carving = noCarving
    /\ uncaughtError = FALSE
    /\ notes = noNotes
    /\ timer = FALSE
    /\ isPaused = FALSE
    /\ orphanTimers = FALSE
    /\ autoSaveInterval = FALSE
    /\ savedGame = noSavedGame

\* ------------------------------------------- the search functions on inputs
\* Input grids: completeSudoku with a subset of FnCells emptied and, possibly,
\* one of PokeCells overwritten with an arbitrary digit; and the empty grid.
MaxFnCells == 6
MaxPokeCells == 2
MaxLimit == 3
FnCellSeq == <<3, 4, 30, 31, 16, 17, 61, 62>>
FnCells == {FnCellSeq[k] : k \in 1..Min(MaxFnCells, Len(FnCellSeq))}
PokeCells == {FnCellSeq[k] : k \in 1..Min(MaxPokeCells, Len(FnCellSeq))}

RECURSIVE blank(_, _)
blank(g, S) ==
    IF S = {} THEN g
    ELSE LET i == CHOOSE x \in S : TRUE IN blank(setCell(g, i, 0), S \ {i})

InputGrids ==
    {blank(completeSudoku, S) : S \in SUBSET FnCells}
    \cup {setCell(blank(completeSudoku, S), p, d) :
              S \in SUBSET FnCells, p \in PokeCells, d \in Digits}
    \cup {emptyGrid}

InitFn ==
    /\ grid \in InputGrids
    /\ constructed
    /\ pendingLoads = 0

CallIsValidMove(row, col, number) ==
    /\ lastCall = noCall
    /\ lastCall' = call("isValidMove", grid, <<row, col, number>>,
                        isValidMove(grid, row, col, number), 0, grid)
    /\ UNCHANGED <<grid, solution, givenCells, difficulty, playVars, carving,
                   uncaughtError, notes, sessionVars>>

CallIsValidMoveForGrid(row, col, num) ==
    /\ lastCall = noCall
    /\ lastCall' = call("isValidMoveForGrid", grid, <<row, col, num>>,
                        isValidMoveForGrid(grid, row, col, num), 0, grid)
    /\ UNCHANGED <<grid, solution, givenCells, difficulty, playVars, carving,
                   uncaughtError, notes, sessionVars>>

CallValidateGameState ==
    /\ lastCall = noCall
    /\ lastCall' = call("validateGameState", grid, <<>>, validateGameState(grid), 0, grid)
    /\ UNCHANGED <<grid, solution, givenCells, difficulty, playVars, carving,
                   uncaughtError, notes, sessionVars>>

\* solveSudoku() works on this.grid itself
CallSolveSudoku ==
    /\ lastCall = noCall
    /\ LET r == solveSudoku(grid) IN
       /\ grid' = r.grid
       /\ lastCall' = call("solveSudoku", grid, <<>>, r.ok, 0, r.grid)
       /\ UNCHANGED <<solution, givenCells, difficulty, playVars, carving, uncaughtError,
                      notes, sessionVars>>

\* solveSudokuForGrid(workingGrid) on a copy of this.grid, as solvePuzzle does
CallSolveSudokuForGrid ==
    /\ lastCall = noCall
    /\ LET r == solveSudokuForGrid(grid) IN
       /\ lastCall' = call("solveSudokuForGrid", grid, <<>>, r.ok, 0, r.grid)
       /\ UNCHANGED <<grid, solution, givenCells, difficulty, playVars, carving,
                      uncaughtError, notes, sessionVars>>

\* this.solutionCount = 0; countSolutions(tempGrid, 0, 0, maxSolutions)
CallCountSolutions(maxSolutions) ==
    /\ lastCall = noCall
    /\ LET r == countSolutions(grid, maxSolutions) IN
       /\ lastCall' = call("countSolutions", grid, <<maxSolutions>>, FALSE,
                           r.solutionCount, r.grid)
       /\ UNCHANGED <<grid, solution, givenCells, difficulty, playVars, carving,
                      uncaughtError, notes, sessionVars>>

CallHasUniqueSolution ==
    /\ lastCall = noCall
    /\ lastCall' = call("hasUniqueSolution", grid, <<>>, hasUniqueSolution(grid), 0, grid)
    /\ UNCHANGED <<grid, solution, givenCells, difficulty, playVars, carving,
                   uncaughtError, notes, sessionVars>>

\* generateCompleteSolution() while Math.random() yields the stream rnd
CallGenerateCompleteSolution(rnd) ==
    /\ lastCall = noCall
    /\ grid' = generateCompleteSolution
    /\ lastCall' = call("generateCompleteSolution", grid, rnd, TRUE, 0,
                        generateCompleteSolution)
    /\ UNCHANGED <<solution, givenCells, difficulty, playVars, carving, uncaughtError,
                   notes, sessionVars>>

\* the caller has read the result; the next call can be made
Return ==
    /\ lastCall # noCall
    /\ lastCall' = noCall
    /\ UNCHANGED <<grid, solution, givenCells, difficulty, playVars, carving,
                   uncaughtError, notes, sessionVars>>

NextFn ==
    \/ \E i \in PokeCells, number \in Digits : CallIsValidMove(rowOf(i), colOf(i), number)
    \/ \E i \in PokeCells, num \in Digits : CallIsValidMoveForGrid(rowOf(i), colOf(i), num)
    \/ CallValidateGameState
    \/ CallSolveSudoku
    \/ CallSolveSudokuForGrid
    \/ \E maxSolutions \in 1..MaxLimit : CallCountSolutions(maxSolutions)
    \/ CallHasUniqueSolution
    \/ \E rnd \in RandomStreams : CallGenerateCompleteSolution(rnd)
    \/ Return

SpecFn == InitFn /\ [][NextFn]_vars

\* ---------------------------------------------------------- the hint engine
getPossibleNumbers(g, row, col) == {num \in Digits : isValidMove(g, row, col, num)}

least(S) == CHOOSE i \in S : \A j \in S : i <= j

\* the units in the order findHiddenSingle visits them: rows, columns, boxes
unitCells(u) ==
    IF u < N THEN {i \in Cells : rowOf(i) = u}
    ELSE IF u < 2 * N THEN {i \in Cells : colOf(i) = u - N}
    ELSE blockCells((u - 2 * N) \div B, (u - 2 * N) % B)

possibleCells(g, u, num) ==
    {i \in unitCells(u) : cellAt(g, i) = 0 /\ isValidMove(g, rowOf(i), colOf(i), num)}

\* findHiddenSingle(): the first (unit, num) whose num fits one cell only
findHiddenSingle(g) ==
    LET hits == {k \in 0..(3 * N * N - 1) :
                    Cardinality(possibleCells(g, k \div N, (k % N) + 1)) = 1} IN
    IF hits = {} THEN [found |-> FALSE, cell |-> 0, number |-> 0]
    ELSE LET k == least(hits) IN
         [found |-> TRUE, number |-> (k % N) + 1,
          cell |-> least(possibleCells(g, k \div N, (k % N) + 1))]

\* a hint engine that does not look for an empty cell
hintAnyCell(g) == [found |-> TRUE, cell |-> 0, number |-> (cellAt(g, 0) % N) + 1]

\* the empty cells that admit one digit only
nakedSingles(g) ==
    {i \in Cells : /\ cellAt(g, i) = 0
                   /\ Cardinality(getPossibleNumbers(g, rowOf(i), colOf(i))) = 1}

\* (variant: the naked-single scan does not test grid[row][col] === 0)
hintNoEmptyTest(g) ==
    LET naked == {i \in Cells : Cardinality(getPossibleNumbers(g, rowOf(i), colOf(i))) = 1} IN
    IF naked # {}
    THEN [found |-> TRUE, cell |-> least(naked),
          number |-> least(getPossibleNumbers(g, rowOf(least(naked)), colOf(least(naked))))]
    ELSE findHiddenSingle(g)

\* the cell and digit solveHint() fills in: a naked single first, in row-major
\* order, a hidden single otherwise
hintFor(g) ==
    LET naked == {i \in Cells : /\ cellAt(g, i) = 0
                                /\ Cardinality(getPossibleNumbers(g, rowOf(i), colOf(i))) = 1} IN
    IF naked # {}
    THEN [found |-> TRUE, cell |-> least(naked),
          number |-> least(getPossibleNumbers(g, rowOf(least(naked)), colOf(least(naked))))]
    ELSE findHiddenSingle(g)

\* ------------------------------------------------- loading a puzzle to play
MaxPending == 2
MaxHints == 2

\* what each generator yields, for every difficulty, pattern and stream of draws
generatedPuzzles ==
    {[difficulty |-> d, pattern |-> pattern, rnd |-> rnd,
      puzzle |-> generateReliablePuzzle(d, pattern, rnd)] :
        d \in Difficulties, pattern \in Patterns, rnd \in RandomStreams}

simplePuzzles ==
    {[difficulty |-> d, puzzle |-> generateSimplePuzzle(d)] : d \in Difficulties}

fallbackCarvings ==
    {[difficulty |-> d, puzzle |-> generateFallbackPuzzle(d)] : d \in Difficulties}

\* getRandomPuzzleFromDatabase(difficulty): null is ok = FALSE
getRandomPuzzleFromDatabase(d, rnd) ==
    LET puzzles == puzzleDatabase[d] IN
    IF Len(puzzles) = 0 THEN [ok |-> FALSE]
    ELSE [ok |-> TRUE,
          data |-> puzzles[((random(rnd, 1) * Len(puzzles)) \div RandDen) + 1]]

\* loadPuzzleFromDatabase(difficulty); ok is its return value
loadPuzzleFromDatabase(d, rnd) ==
    LET none == [grid |-> emptyGrid, solution |-> emptyGrid, givenCells |-> noGivens,
                 removed |-> <<>>, route |-> "loadPuzzleFromDatabase", ok |-> FALSE]
        puzzleData == getRandomPuzzleFromDatabase(d, rnd) IN
    IF d = "hard" \/ ~puzzleData.ok THEN none
    ELSE [none EXCEPT !.grid = puzzleData.data.puzzle,
                      !.solution = puzzleData.data.solution,
                      !.givenCells = givenMask(puzzleData.data.puzzle),
                      !.ok = TRUE]

\* the record of a puzzle just produced: op the routine that made the grid,
\* before the solution stored with it, args the cells the carving removed
produced(p) == call(p.route, p.solution, p.removed, TRUE, 0, p.grid)

\* clearSelection() with a cell selected clears it and then calls
\* this.updateEraseButton(), which the class never defines: the TypeError ends
\* the handler that called clearSelection()
clearSelectionThrows == selectedCell # -1

\* startTimer(): setInterval without clearInterval of the interval this.timer
\* holds; startAutoSave() clears the one it holds
startTimer ==
    /\ timer' = TRUE
    /\ isPaused' = FALSE
    /\ orphanTimers' = (orphanTimers \/ timer)
    /\ autoSaveInterval' = TRUE

\* stopTimer(), stopAutoSave(), clearGameState() and the reset of isPaused
resetSession ==
    /\ timer' = FALSE
    /\ isPaused' = FALSE
    /\ autoSaveInterval' = FALSE
    /\ savedGame' = noSavedGame
    /\ UNCHANGED orphanTimers

\* the fields resetGame() resets after clearSelection(), grid and givenCells aside
resetFields ==
    /\ selectedCell' = -1
    /\ moveHistory' = <<>>
    /\ historyIndex' = -1
    /\ isPaintMode' = FALSE
    /\ paintNumber' = 0
    /\ moveCount' = 0
    /\ errorCount' = 0
    /\ hintCount' = 0
    /\ isGameWon' = FALSE

\* resetGame() ended by the TypeError of clearSelection()
resetAborted ==
    /\ grid' = emptyGrid
    /\ givenCells' = noGivens
    /\ selectedCell' = -1
    /\ lastCall' = noCall
    /\ uncaughtError' = TRUE
    /\ notes' = noNotes
    /\ UNCHANGED <<solution, difficulty, moveHistory, historyIndex, moveCount,
                   errorCount, hintCount, isGameWon, isPaintMode, paintNumber,
                   pendingLoads, carving, sessionVars>>

\* newGame(): resetGame() has cleared the saved game, so hasSavedGame() is
\* false and the load is scheduled
newGame ==
    /\ pendingLoads < MaxPending
    /\ IF clearSelectionThrows THEN resetAborted
       ELSE /\ grid' = emptyGrid
            /\ givenCells' = noGivens
            /\ resetFields
            /\ pendingLoads' = pendingLoads + 1
            /\ lastCall' = noCall
            /\ notes' = noNotes
            /\ resetSession
            /\ UNCHANGED <<solution, difficulty, carving, uncaughtError>>

\* setDifficulty(difficulty): its own clearSelection() comes before newGame()
setDifficulty(d) ==
    /\ pendingLoads < MaxPending
    /\ difficulty' = d
    /\ IF clearSelectionThrows
       THEN /\ selectedCell' = -1
            /\ uncaughtError' = TRUE
            /\ UNCHANGED <<grid, solution, givenCells, moveHistory, historyIndex,
                           moveCount, errorCount, hintCount, isGameWon, isPaintMode,
                           paintNumber, pendingLoads, lastCall, carving, notes, sessionVars>>
       ELSE /\ grid' = emptyGrid
            /\ givenCells' = noGivens
            /\ resetFields
            /\ pendingLoads' = pendingLoads + 1
            /\ lastCall' = noCall
            /\ notes' = noNotes
            /\ resetSession
            /\ UNCHANGED <<solution, carving, uncaughtError>>

\* the setTimeout callback of newGame()
generated(d, pattern, rnd) ==
    (CHOOSE o \in generatedPuzzles :
        o.difficulty = d /\ o.pattern = pattern /\ o.rnd = rnd).puzzle

\* the callback once p is in place: every non-zero cell is marked given
markGivens(p) ==
    /\ grid' = p.grid
    /\ solution' = p.solution
    /\ givenCells' = [r \in Idx |-> [c \in Idx |->
                          p.givenCells[r][c] \/ p.grid[r][c] # 0]]
    /\ lastCall' = produced(p)

deferredLoad(pattern, rnd) ==
    /\ pendingLoads > 0
    /\ LET db == loadPuzzleFromDatabase(difficulty, rnd) IN
       /\ markGivens(IF db.ok THEN db ELSE generated(difficulty, pattern, rnd))
       /\ notes' = IF db.ok THEN notes ELSE noNotes
    /\ pendingLoads' = pendingLoads - 1
    /\ startTimer
    /\ UNCHANGED <<difficulty, selectedCell, moveHistory, historyIndex, moveCount,
                   errorCount, hintCount, isGameWon, isPaintMode, paintNumber,
                   carving, uncaughtError, savedGame>>

\* startDailyChallenge(challengeType)
startDailyChallenge(challengeId) ==
    IF clearSelectionThrows THEN resetAborted
    ELSE LET challenge == dailyChallenges[challengeId] IN
         /\ resetFields
         /\ grid' = challenge.puzzle
         /\ solution' = challenge.solution
         /\ givenCells' = givenMask(challenge.puzzle)
         /\ lastCall' = call("startDailyChallenge", challenge.solution, <<>>,
                             TRUE, 0, challenge.puzzle)
         /\ notes' = noNotes
         /\ timer' = TRUE
         /\ isPaused' = FALSE
         /\ autoSaveInterval' = TRUE
         /\ savedGame' = noSavedGame
         /\ UNCHANGED <<difficulty, pendingLoads, carving, uncaughtError, orphanTimers>>

\* generateSimplePuzzle() and generateFallbackPuzzle(), the fallbacks of the
\* generator, called on the game as it stands
install(p) ==
    /\ grid' = p.grid
    /\ solution' = p.solution
    /\ givenCells' = p.givenCells
    /\ lastCall' = produced(p)
    /\ UNCHANGED <<difficulty, playVars, carving, uncaughtError, notes, sessionVars>>

CallGenerateSimplePuzzle ==
    /\ pendingLoads <= MaxPending
    /\ install((CHOOSE o \in simplePuzzles : o.difficulty = difficulty).puzzle)

CallGenerateFallbackPuzzle ==
    /\ pendingLoads <= MaxPending
    /\ install((CHOOSE o \in fallbackCarvings : o.difficulty = difficulty).puzzle)

\* (variant: the naked-single branch does not return, so the hidden single
\* found on the grid it leaves is filled in as well)
solveHintNoReturn ==
    /\ ~isGameWon
    /\ hintCount < MaxHints
    /\ LET hint == hintFor(grid)
           first == setCell(grid, hint.cell, hint.number)
           hiddenSingle == findHiddenSingle(first) IN
       /\ hint.found
       /\ IF nakedSingles(grid) # {} /\ hiddenSingle.found
          THEN /\ grid' = setCell(first, hiddenSingle.cell, hiddenSingle.number)
               /\ hintCount' = hintCount + 2
          ELSE /\ grid' = first
               /\ hintCount' = hintCount + 1
    /\ UNCHANGED <<solution, givenCells, difficulty, selectedCell, moveHistory,
                   historyIndex, moveCount, errorCount, isGameWon, isPaintMode,
                   paintNumber, pendingLoads, lastCall, carving, uncaughtError, notes,
                   sessionVars>>

\* solveHint()
solveHint ==
    /\ ~isGameWon
    /\ hintCount < MaxHints
    /\ LET hint == hintFor(grid) IN
       /\ hint.found
       /\ grid' = setCell(grid, hint.cell, hint.number)
       /\ notes' = [notes EXCEPT ![rowOf(hint.cell)][colOf(hint.cell)] = {}]
       /\ hintCount' = hintCount + 1
    /\ UNCHANGED <<solution, givenCells, difficulty, selectedCell, moveHistory,
                   historyIndex, moveCount, errorCount, isGameWon, isPaintMode,
                   paintNumber, pendingLoads, lastCall, carving, uncaughtError,
                   sessionVars>>

InitGen ==
    /\ grid = emptyGrid
    /\ constructed
    /\ pendingLoads = 1

NextGen ==
    \/ newGame
    \/ \E d \in Difficulties : setDifficulty(d)
    \/ \E pattern \in Patterns, rnd \in RandomStreams : deferredLoad(pattern, rnd)
    \/ \E challengeId \in ChallengeIds : startDailyChallenge(challengeId)
    \/ CallGenerateSimplePuzzle
    \/ CallGenerateFallbackPuzzle
    \/ solveHint

SpecGen == InitGen /\ [][NextGen]_vars

\* ------------------------------------------------------------------ playing
\* The player clicks the cells of PlayCells and types the digits 1..MaxPlayDigit;
\* notes stay off. The counters stop the play at MaxMoves and MaxErrors.
MaxPlayCells == 2
MaxPlayDigit == 2
MaxMoves == 1
MaxErrors == 1
PlayCellSeq == <<0, 2, 3, 10>>
PlayCells == {PlayCellSeq[k] : k \in 1..Min(MaxPlayCells, Len(PlayCellSeq))}
PlayDigits == 1..Min(MaxPlayDigit, N)

maxHistorySize == 100

\* checkWin()
checkWin(g) == \A i \in Cells : cellAt(g, i) # 0

\* (variant: the shift of the oldest move is not followed by historyIndex--)
addToHistoryNoShift(move) ==
    LET h == Append(SubSeq(moveHistory, 1, historyIndex + 1), move) IN
    IF Len(h) > maxHistorySize
    THEN [moveHistory |-> Tail(h), historyIndex |-> historyIndex + 1]
    ELSE [moveHistory |-> h, historyIndex |-> historyIndex + 1]

\* addToHistory(move): moveHistory and historyIndex afterwards
addToHistory(move) ==
    LET h == Append(SubSeq(moveHistory, 1, historyIndex + 1), move) IN
    IF Len(h) > maxHistorySize
    THEN [moveHistory |-> Tail(h), historyIndex |-> historyIndex]
    ELSE [moveHistory |-> h, historyIndex |-> historyIndex + 1]

\* removeNotesFromBlock(row, col, number): the notes afterwards
removeNotesFromBlock(nt, row, col, number) ==
    [r \in Idx |-> [c \in Idx |->
        IF r = row \/ c = col \/ (r \div B = row \div B /\ c \div B = col \div B)
        THEN nt[r][c] \ {number} ELSE nt[r][c]]]

\* removeInvalidNotes() on the grid g: the notes afterwards
removeInvalidNotes(g, nt) ==
    [r \in Idx |-> [c \in Idx |->
        IF g[r][c] = 0 THEN {noteNumber \in nt[r][c] : isValidMove(g, r, c, noteNumber)}
        ELSE nt[r][c]]]

\* the notes after a valid setNumber(row, col, number) that left the grid placed
notesAfterPlacing(placed, row, col, number) ==
    removeInvalidNotes(placed,
        removeNotesFromBlock([notes EXCEPT ![row][col] = {}], row, col, number))

\* gameWon(), if won; isGameWon aside
gameWon(won) ==
    /\ timer' = IF won THEN FALSE ELSE timer
    /\ autoSaveInterval' = IF won THEN FALSE ELSE autoSaveInterval
    /\ savedGame' = IF won THEN noSavedGame ELSE savedGame
    /\ UNCHANGED <<isPaused, orphanTimers>>

\* (variant: the rejected branch does not put oldValue back)
setNumberNoRevert(row, col, number) ==
    LET oldValue == grid[row][col]
        placed == [grid EXCEPT ![row][col] = number]
        painting == isPaintMode /\ paintNumber = number /\ number # 0 IN
    IF number = 0 \/ isValidMove(placed, row, col, number)
    THEN LET h == addToHistory([type |-> "number", row |-> row, col |-> col,
                                value |-> number, oldValue |-> oldValue]) IN
         /\ grid' = placed
         /\ moveHistory' = h.moveHistory
         /\ historyIndex' = h.historyIndex
         /\ moveCount' = moveCount + 1
         /\ selectedCell' = IF painting THEN selectedCell ELSE -1
         /\ notes' = notesAfterPlacing(placed, row, col, number)
         /\ isGameWon' = IF (painting \/ ~clearSelectionThrows) /\ checkWin(placed)
                         THEN TRUE ELSE isGameWon
         /\ gameWon((painting \/ ~clearSelectionThrows) /\ checkWin(placed))
         /\ uncaughtError' = (uncaughtError \/ (~painting /\ clearSelectionThrows))
         /\ UNCHANGED <<solution, givenCells, difficulty, errorCount, hintCount,
                        isPaintMode, paintNumber, pendingLoads, lastCall, carving>>
    ELSE /\ grid' = placed
         /\ errorCount' = errorCount + 1
         /\ selectedCell' = -1
         /\ uncaughtError' = (uncaughtError \/ clearSelectionThrows)
         /\ UNCHANGED <<solution, givenCells, difficulty, moveHistory,
                        historyIndex, moveCount, hintCount, isGameWon, isPaintMode,
                        paintNumber, pendingLoads, lastCall, carving, notes, sessionVars>>

\* setNumber(row, col, number); number is 0 for an erasure
setNumber(row, col, number) ==
    LET oldValue == grid[row][col]
        placed == [grid EXCEPT ![row][col] = number]
        painting == isPaintMode /\ paintNumber = number /\ number # 0 IN
    IF number = 0 \/ isValidMove(placed, row, col, number)
    THEN LET h == addToHistory([type |-> "number", row |-> row, col |-> col,
                                value |-> number, oldValue |-> oldValue]) IN
         /\ grid' = placed
         /\ moveHistory' = h.moveHistory
         /\ historyIndex' = h.historyIndex
         /\ moveCount' = moveCount + 1
         /\ selectedCell' = IF painting THEN selectedCell ELSE -1
         /\ notes' = notesAfterPlacing(placed, row, col, number)
         /\ isGameWon' = IF (painting \/ ~clearSelectionThrows) /\ checkWin(placed)
                         THEN TRUE ELSE isGameWon
         /\ gameWon((painting \/ ~clearSelectionThrows) /\ checkWin(placed))
         /\ uncaughtError' = (uncaughtError \/ (~painting /\ clearSelectionThrows))
         /\ UNCHANGED <<solution, givenCells, difficulty, errorCount, hintCount,
                        isPaintMode, paintNumber, pendingLoads, lastCall, carving>>
    ELSE /\ errorCount' = errorCount + 1
         /\ selectedCell' = -1
         /\ uncaughtError' = (uncaughtError \/ clearSelectionThrows)
         /\ UNCHANGED <<grid, solution, givenCells, difficulty, moveHistory,
                        historyIndex, moveCount, hintCount, isGameWon, isPaintMode,
                        paintNumber, pendingLoads, lastCall, carving, notes, sessionVars>>

\* toggleNote(row, col, number)
toggleNote(row, col, number) ==
    LET wasRemoving == number \in notes[row][col]
        h == addToHistory([type |-> "note", row |-> row, col |-> col,
                           noteNumber |-> number,
                           action |-> IF wasRemoving THEN "remove" ELSE "add"]) IN
    IF ~wasRemoving /\ ~isValidMove(grid, row, col, number)
    THEN UNCHANGED vars
    ELSE /\ notes' = [notes EXCEPT ![row][col] =
                          IF wasRemoving THEN @ \ {number} ELSE @ \cup {number}]
         /\ moveHistory' = h.moveHistory
         /\ historyIndex' = h.historyIndex
         /\ UNCHANGED <<grid, solution, givenCells, difficulty, selectedCell, moveCount,
                        errorCount, hintCount, isGameWon, isPaintMode, paintNumber,
                        pendingLoads, lastCall, carving, uncaughtError, sessionVars>>

\* toggleNoteMode(index), the right click, on a filled cell or with a paint
\* number set; note mode itself stays off
toggleNoteMode(index) ==
    /\ ~isGameWon
    /\ ~cellAt(givenCells, index)
    /\ (isPaintMode /\ paintNumber # 0) \/ cellAt(grid, index) # 0
    /\ IF isPaintMode /\ paintNumber # 0 /\ cellAt(grid, index) = 0
       THEN toggleNote(rowOf(index), colOf(index), paintNumber)
       ELSE setNumber(rowOf(index), colOf(index), 0)

\* selectCell(index)
selectCell(index) ==
    /\ ~isGameWon
    /\ IF clearSelectionThrows
       THEN /\ selectedCell' = -1
            /\ uncaughtError' = TRUE
            /\ UNCHANGED <<grid, solution, givenCells, difficulty, moveHistory,
                           historyIndex, moveCount, errorCount, hintCount, isGameWon,
                           isPaintMode, paintNumber, pendingLoads, lastCall, carving,
                           notes, sessionVars>>
       ELSE IF cellAt(givenCells, index) \/ cellAt(grid, index) # 0
       THEN /\ paintNumber' = cellAt(grid, index)
            /\ isPaintMode' = TRUE
            /\ UNCHANGED <<grid, solution, givenCells, difficulty, selectedCell,
                           moveHistory, historyIndex, moveCount, errorCount,
                           hintCount, isGameWon, pendingLoads, lastCall, carving,
                           uncaughtError, notes, sessionVars>>
       ELSE IF isPaintMode /\ paintNumber # 0
       THEN setNumber(rowOf(index), colOf(index), paintNumber)
       ELSE /\ selectedCell' = index
            /\ UNCHANGED <<grid, solution, givenCells, difficulty, moveHistory,
                           historyIndex, moveCount, errorCount, hintCount, isGameWon,
                           isPaintMode, paintNumber, pendingLoads, lastCall, carving,
                           uncaughtError, notes, sessionVars>>

\* inputNumber(number)
inputNumber(number) ==
    /\ selectedCell # -1
    /\ ~isGameWon
    /\ ~cellAt(givenCells, selectedCell)
    /\ setNumber(rowOf(selectedCell), colOf(selectedCell), number)

\* eraseNumber()
eraseNumber ==
    /\ selectedCell # -1
    /\ ~isGameWon
    /\ ~cellAt(givenCells, selectedCell)
    /\ grid' = setCell(grid, selectedCell, 0)
    /\ notes' = [notes EXCEPT ![rowOf(selectedCell)][colOf(selectedCell)] = {}]
    /\ UNCHANGED <<solution, givenCells, difficulty, playVars, lastCall, carving,
                   uncaughtError, sessionVars>>

\* clearBoard(), confirmed
clearBoard ==
    /\ grid' = [r \in Idx |-> [c \in Idx |-> IF givenCells[r][c] THEN grid[r][c] ELSE 0]]
    /\ notes' = [r \in Idx |-> [c \in Idx |-> IF givenCells[r][c] THEN notes[r][c] ELSE {}]]
    /\ UNCHANGED <<solution, givenCells, difficulty, playVars, lastCall, carving,
                   uncaughtError, sessionVars>>

\* executeMove(move, isUndo) on the grid g: the grid afterwards
executeMoveOn(g, move, isUndo) ==
    IF move.type = "number"
    THEN [g EXCEPT ![move.row][move.col] = IF isUndo THEN move.oldValue ELSE move.value]
    ELSE g

executeMove(move, isUndo) == executeMoveOn(grid, move, isUndo)

\* executeMove(move, isUndo): the notes afterwards
executeNotes(move, isUndo) ==
    IF move.type = "note"
    THEN [notes EXCEPT ![move.row][move.col] =
             IF (move.action = "add") = isUndo
             THEN @ \ {move.noteNumber} ELSE @ \cup {move.noteNumber}]
    ELSE notes

\* undoMove()
undoMove ==
    /\ historyIndex >= 0
    /\ Len(moveHistory) > 0
    /\ grid' = executeMove(moveHistory[historyIndex + 1], TRUE)
    /\ notes' = executeNotes(moveHistory[historyIndex + 1], TRUE)
    /\ historyIndex' = historyIndex - 1
    /\ UNCHANGED <<solution, givenCells, difficulty, selectedCell, moveHistory,
                   moveCount, errorCount, hintCount, isGameWon, isPaintMode,
                   paintNumber, pendingLoads, lastCall, carving, uncaughtError,
                   sessionVars>>

\* redoMove()
redoMove ==
    /\ historyIndex < Len(moveHistory) - 1
    /\ historyIndex' = historyIndex + 1
    /\ grid' = executeMove(moveHistory[historyIndex + 2], FALSE)
    /\ notes' = executeNotes(moveHistory[historyIndex + 2], FALSE)
    /\ UNCHANGED <<solution, givenCells, difficulty, selectedCell, moveHistory,
                   moveCount, errorCount, hintCount, isGameWon, isPaintMode,
                   paintNumber, pendingLoads, lastCall, carving, uncaughtError,
                   sessionVars>>

\* the clicks and keys explored stop at MaxMoves moves and MaxErrors errors
withinPlay == moveCount < MaxMoves /\ errorCount < MaxErrors

\* the game after new SudokuGame(): the constructor has called newGame()
Init ==
    /\ grid = emptyGrid
    /\ constructed
    /\ pendingLoads = 1

Next ==
    \/ newGame
    \/ \E pattern \in Patterns, rnd \in RandomStreams : deferredLoad(pattern, rnd)
    \/ \E index \in PlayCells : withinPlay /\ selectCell(index)
    \/ \E number \in PlayDigits : withinPlay /\ inputNumber(number)
    \/ eraseNumber
    \/ clearBoard
    \/ undoMove
    \/ redoMove
    \/ solveHint

Spec == Init /\ [][Next]_vars

\* ------------------------------------------------------------ the end game
\* The first easy puzzle of the database with every open cell but those of
\* EndOpen filled in by the player, who selected the open cells in row-major
\* order and typed the digit of the solution into each. From there the player
\* clicks the cells of EndCells, types, erases, takes back and redoes the
\* moves made since, and asks for hints, for at most MaxEndMoves further moves.
MaxEndMoves == 2
MaxEndCells == 5
EndOpen == {16, 33, 34, 50}
EndCellSeq == <<36, 34, 50, 33, 16, 0>>
EndCells == {EndCellSeq[k] : k \in 1..Min(MaxEndCells, Len(EndCellSeq))}

endPuzzle == loadPuzzleFromDatabase("easy", [t \in 1..RandPeriod |-> 0])

endPlayed == SelectSeq(allPositions, LAMBDA i : cellAt(endPuzzle.grid, i) = 0 /\ i \notin EndOpen)

InitEnd ==
    /\ grid = blank(endPuzzle.solution, EndOpen)
    /\ solution = endPuzzle.solution
    /\ givenCells = endPuzzle.givenCells
    /\ difficulty = "easy"
    /\ selectedCell = -1
    /\ moveHistory = [k \in 1..Len(endPlayed) |->
                          [type |-> "number", row |-> rowOf(endPlayed[k]),
                           col |-> colOf(endPlayed[k]),
                           value |-> cellAt(endPuzzle.solution, endPlayed[k]),
                           oldValue |-> 0]]
    /\ historyIndex = Len(endPlayed) - 1
    /\ moveCount = Len(endPlayed)
    /\ errorCount = 0
    /\ hintCount = 0
    /\ isGameWon = FALSE
    /\ isPaintMode = FALSE
    /\ paintNumber = 0
    /\ pendingLoads = 0
    /\ lastCall = produced(endPuzzle)
    /\ carving = noCarving
    /\ uncaughtError = FALSE
    /\ notes = noNotes
    /\ timer = TRUE
    /\ isPaused = FALSE
    /\ orphanTimers = FALSE
    /\ autoSaveInterval = TRUE
    /\ savedGame = noSavedGame

withinEnd == moveCount < Len(endPlayed) + MaxEndMoves /\ errorCount < MaxErrors

NextEnd ==
    \/ \E index \in EndCells : withinEnd /\ selectCell(index)
    \/ \E number \in PlayDigits : withinEnd /\ inputNumber(number)
    \/ eraseNumber
    \/ historyIndex >= Len(endPlayed) /\ undoMove
    \/ redoMove
    \/ solveHint

SpecEnd == InitEnd /\ [][NextEnd]_vars

\* ------------------------------------------- the control of clue removal
\* The loops of the carving routines with the answers of the checks left
\* open: a check (hasUniqueSolution, isPuzzleSolvable, validateGameState,
\* validatePuzzleCompletely, removeFromLessConstrainedAreas) may answer
\* either way. carving.pc is the routine whose loop is running, rounds the
\* attempts counter of removeNumbers, attempt the for (attempt ...) counter,
\* i the index into positions, len the length of positions.
removeNumbersMaxAttempts == 500
variedMaxAttempts == 5
difficultyAttempts == 5

Routines == {"removeNumbers", "generateReliablePuzzle", "generateSimplePuzzle"}

\* const maxAttempts of removeNumbersForDifficulty
maxAttemptsOf(d) == IF d = "hard" THEN 120 ELSE Min(targetRemovalCount(d) * 2, 60)

\* positions.length after generateRemovalPositions(pattern)
positionsLength(pattern) ==
    IF pattern = "checkerboard"
    THEN Cardinality({i \in Cells : (rowOf(i) + colOf(i)) % 2 = 0})
    ELSE N * N

carvingFrame ==
    UNCHANGED <<grid, solution, givenCells, difficulty, playVars, lastCall, uncaughtError,
                notes, sessionVars>>

\* a routine is called: removeNumbers(), generateReliablePuzzle() (which
\* enters generateVariedPuzzle and its first createVariedPuzzle) or
\* generateSimplePuzzle() (which enters removeNumbersForDifficulty)
startCarving(routine, d, pattern) ==
    /\ carving.pc = "idle"
    /\ carving' = [noCarving EXCEPT
           !.routine = routine,
           !.d = d,
           !.pc = IF routine = "removeNumbers" THEN "removeNumbers"
                  ELSE IF routine = "generateReliablePuzzle" THEN "createVariedPuzzle"
                  ELSE "removeNumbersForDifficulty",
           !.len = IF routine = "generateReliablePuzzle" THEN positionsLength(pattern)
                   ELSE N * N,
           !.attempt = IF routine = "generateReliablePuzzle" THEN 1 ELSE 0]
    /\ carvingFrame

\* one round of the while loop of removeNumbers: the pass over positions
\* removes k cells; with k = 0, removeFromLessConstrainedAreas() answers less
removeNumbersRound(k, less) ==
    /\ carving.pc = "removeNumbers"
    /\ IF carving.removedCount < targetRemovalCount(carving.d)
          /\ carving.rounds < removeNumbersMaxAttempts
       THEN /\ k <= targetRemovalCount(carving.d) - carving.removedCount
            /\ carving' = [carving EXCEPT
                   !.rounds = @ + 1,
                   !.removedCount = @ + k,
                   !.pc = IF k = 0 /\ ~less THEN "returned" ELSE @]
       ELSE carving' = [carving EXCEPT !.pc = "returned"]
    /\ carvingFrame

\* (variant: the loop does not break at removedCount >= targetRemovalCount)
variedTrialNoBreak(answer, pattern) ==
    /\ carving.pc = "createVariedPuzzle"
    /\ IF carving.i < carving.len
       THEN carving' = [carving EXCEPT !.i = @ + 1,
                                       !.removedCount = IF answer THEN @ + 1 ELSE @]
       ELSE IF 10 * (N * N - carving.removedCount) >= 9 * difficulties[carving.d]
       THEN carving' = [carving EXCEPT !.pc = "returned"]
       ELSE IF carving.attempt < variedMaxAttempts
       THEN carving' = [carving EXCEPT !.attempt = @ + 1, !.i = 0, !.removedCount = 0,
                                       !.len = positionsLength(pattern)]
       ELSE carving' = [carving EXCEPT !.pc = "removeNumbersForDifficulty",
                                       !.attempt = 0, !.i = 0, !.removedCount = 0,
                                       !.len = N * N]
    /\ carvingFrame

\* one trial of the loop of createVariedPuzzle, hasUniqueSolution() answering
\* answer; after the loop its return value and the for (attempt ...) loop of
\* generateVariedPuzzle, then generateReliablePuzzle's generateSimplePuzzle()
variedTrial(answer, pattern) ==
    /\ carving.pc = "createVariedPuzzle"
    /\ IF carving.i < carving.len /\ carving.removedCount < targetRemovalCount(carving.d)
       THEN carving' = [carving EXCEPT !.i = @ + 1,
                                       !.removedCount = IF answer THEN @ + 1 ELSE @]
       ELSE IF 10 * (N * N - carving.removedCount) >= 9 * difficulties[carving.d]
       THEN carving' = [carving EXCEPT !.pc = "returned"]
       ELSE IF carving.attempt < variedMaxAttempts
       THEN carving' = [carving EXCEPT !.attempt = @ + 1, !.i = 0, !.removedCount = 0,
                                       !.len = positionsLength(pattern)]
       ELSE carving' = [carving EXCEPT !.pc = "removeNumbersForDifficulty",
                                       !.attempt = 0, !.i = 0, !.removedCount = 0,
                                       !.len = N * N]
    /\ carvingFrame

\* (variant: an attempt that fell short of the target is tried again)
difficultyTrialRetry(answer) ==
    /\ carving.pc = "removeNumbersForDifficulty"
    /\ IF carving.attempt < difficultyAttempts
       THEN IF /\ carving.i < carving.len
               /\ carving.removedCount < targetRemovalCount(carving.d)
               /\ carving.i < maxAttemptsOf(carving.d)
            THEN carving' = [carving EXCEPT !.i = @ + 1,
                                            !.removedCount = IF answer THEN @ + 1 ELSE @]
            ELSE carving' = [carving EXCEPT
                     !.attempt = IF carving.removedCount < targetRemovalCount(carving.d)
                                 THEN @ ELSE @ + 1,
                     !.i = 0, !.removedCount = 0]
       ELSE carving' = [carving EXCEPT
                !.pc = IF answer THEN "validatePuzzleCompletely" ELSE "generateFallbackPuzzle",
                !.i = 0, !.removedCount = 0]
    /\ carvingFrame

\* one trial of the removal loop of removeNumbersForDifficulty, the check of
\* the removal answering answer; after the loop the next attempt; after the
\* last attempt validatePuzzleCompletely() answering answer
difficultyTrial(answer) ==
    /\ carving.pc = "removeNumbersForDifficulty"
    /\ IF carving.attempt < difficultyAttempts
       THEN IF /\ carving.i < carving.len
               /\ carving.removedCount < targetRemovalCount(carving.d)
               /\ carving.i < maxAttemptsOf(carving.d)
            THEN carving' = [carving EXCEPT !.i = @ + 1,
                                            !.removedCount = IF answer THEN @ + 1 ELSE @]
            ELSE carving' = [carving EXCEPT !.attempt = @ + 1, !.i = 0, !.removedCount = 0]
       ELSE carving' = [carving EXCEPT
                !.pc = IF answer THEN "validatePuzzleCompletely" ELSE "generateFallbackPuzzle",
                !.i = 0, !.removedCount = 0]
    /\ carvingFrame

\* one round of the removal loop of generateFallbackPuzzle, then back in
\* generateSimplePuzzle
fallbackTrial ==
    /\ carving.pc = "generateFallbackPuzzle"
    /\ IF carving.i < carving.len /\ carving.removedCount < targetRemovalCount(carving.d)
       THEN carving' = [carving EXCEPT !.i = @ + 1, !.removedCount = @ + 1]
       ELSE carving' = [carving EXCEPT !.pc = "validatePuzzleCompletely"]
    /\ carvingFrame

\* the validation that ends generateSimplePuzzle: useFallbackPuzzle() or not
finalValidation ==
    /\ carving.pc = "validatePuzzleCompletely"
    /\ carving' = [carving EXCEPT !.pc = "returned"]
    /\ carvingFrame

\* the caller goes on
carvingReturns ==
    /\ carving.pc = "returned"
    /\ carving' = noCarving
    /\ carvingFrame

NextCarve ==
    \/ \E routine \in Routines, d \in Difficulties, pattern \in Patterns :
           startCarving(routine, d, pattern)
    \/ \E k \in 0..MaxRemovals, less \in BOOLEAN : removeNumbersRound(k, less)
    \/ \E answer \in BOOLEAN, pattern \in Patterns : variedTrial(answer, pattern)
    \/ \E answer \in BOOLEAN : difficultyTrial(answer)
    \/ fallbackTrial
    \/ finalValidation
    \/ carvingReturns

\* the routines run to completion on the calling thread
SpecCarve == InitGen /\ [][NextCarve]_vars /\ WF_vars(NextCarve)

\* ===================================================== claimed properties
\* What the claims speak of, defined apart from the code under check.
Validators == {"isValidMove", "isValidMoveForGrid"}
Solvers == {"solveSudoku", "solveSudokuForGrid"}

isFull(g) == \A i \in Cells : cellAt(g, i) # 0

sameUnit(i, j) ==
    \/ rowOf(i) = rowOf(j)
    \/ colOf(i) = colOf(j)
    \/ (rowOf(i) \div B = rowOf(j) \div B /\ colOf(i) \div B = colOf(j) \div B)

\* no cell other than (row, col) in its row, column or block holds v
noOtherHolds(g, row, col, v) ==
    \A j \in Cells : (j # row * N + col /\ sameUnit(j, row * N + col)) => cellAt(g, j) # v

\* the full, duplicate-free grids that agree with g on its filled cells
RECURSIVE assignments(_, _, _)
assignments(g0, h, S) ==
    IF S = {} THEN {h}
    ELSE LET i == CHOOSE x \in S : TRUE IN
         UNION {assignments(g0, setCell(h, i, d), S \ {i}) :
                    d \in {v \in Digits : noOtherHolds(g0, rowOf(i), colOf(i), v)}}

completions(g) ==
    {h \in assignments(g, g, {i \in Cells : cellAt(g, i) = 0}) : validateGameState(h)}

\* C7 (as claimed): both validators answer TRUE exactly when no other cell
\* of the row, column or block holds the value; the content of the cell
\* itself never matters.
C7_OwnCellIgnored ==
    lastCall.op \in Validators =>
        lastCall.ok = noOtherHolds(lastCall.before, lastCall.args[1],
                                   lastCall.args[2], lastCall.args[3])

\* C8 (amended): for an input grid whose filled cells repeat no digit in any
\* row, column or block, whenever a solver returns true the grid it leaves is
\* completely filled and validateGameState finds no duplicate in it.
C8_SolvedGridValid ==
    (lastCall.op \in Solvers /\ lastCall.ok /\ validateGameState(lastCall.before)) =>
        (isFull(lastCall.after) /\ validateGameState(lastCall.after))

\* a solver succeeded on a duplicate-free input with several cells to fill
C8_Witness ==
    /\ lastCall.op \in Solvers
    /\ lastCall.ok
    /\ validateGameState(lastCall.before)
    /\ emptyCount(lastCall.before) >= 4

\* C8 (as claimed): the same for any input grid.
C8_AnyInputGrid ==
    (lastCall.op \in Solvers /\ lastCall.ok) =>
        (isFull(lastCall.after) /\ validateGameState(lastCall.after))

\* C9: when a solver returns false, the grid is cell for cell the grid it was
\* called with.
C9_FailureRestoresGrid ==
    (lastCall.op \in Solvers /\ ~lastCall.ok) => lastCall.after = lastCall.before

\* a solver failed after it had placed a digit in the first empty cell
C9_Witness ==
    /\ lastCall.op \in Solvers
    /\ ~lastCall.ok
    /\ LET e == firstEmptyFrom(lastCall.before, 0) IN
       /\ e # -1
       /\ nextValid(TRUE, lastCall.before, e, 1) <= N

\* C10 (amended): for a grid whose filled cells repeat no digit,
\* countSolutions(grid, 0, 0, L) started at solutionCount = 0 leaves
\* solutionCount = min(L, number of completions of the grid), hence never more
\* than L; hasUniqueSolution() is true exactly when there is one completion;
\* and the empty grid, which has more than MaxLimit completions, yields L
\* (2 for L = 2).
C10_CountIsMinOfLimit ==
    /\ (lastCall.op = "countSolutions" /\ lastCall.before = emptyGrid) =>
           lastCall.count = lastCall.args[1]
    /\ (lastCall.op = "countSolutions" /\ lastCall.before # emptyGrid
            /\ validateGameState(lastCall.before)) =>
           lastCall.count = Min(lastCall.args[1], Cardinality(completions(lastCall.before)))
    /\ (lastCall.op = "hasUniqueSolution" /\ lastCall.before # emptyGrid
            /\ validateGameState(lastCall.before)) =>
           lastCall.ok = (Cardinality(completions(lastCall.before)) = 1)

\* the count stopped at the limit on a grid that has more completions
C10_Witness ==
    /\ lastCall.op = "countSolutions"
    /\ lastCall.before # emptyGrid
    /\ validateGameState(lastCall.before)
    /\ Cardinality(completions(lastCall.before)) > lastCall.args[1]
    /\ lastCall.count = lastCall.args[1]

\* C10 (as claimed): the same for every grid.
C10_AnyGrid ==
    /\ (lastCall.op = "countSolutions" /\ lastCall.before # emptyGrid) =>
           lastCall.count = Min(lastCall.args[1], Cardinality(completions(lastCall.before)))
    /\ (lastCall.op = "hasUniqueSolution" /\ lastCall.before # emptyGrid) =>
           lastCall.ok = (Cardinality(completions(lastCall.before)) = 1)

\* ----------------------------------------------------- the puzzles produced
Carvers == {"createVariedPuzzle", "removeNumbersForDifficulty", "generateFallbackPuzzle"}
Generators == Carvers \cup {"useFallbackPuzzle"}
Sources == Generators \cup {"loadPuzzleFromDatabase", "startDailyChallenge"}

\* the grid a carving had after the first k removals it kept
afterRemovals(k) == blank(lastCall.before, {lastCall.args[j] : j \in 1..k})

isSolution(g) == \A u \in 0..(3 * N - 1) : {cellAt(g, i) : i \in unitCells(u)} = Digits

\* C1: every puzzle a generator produces, for every difficulty, has exactly
\* one solution: counting the completions of the carved grid with cutoff 2
\* yields 1.
C1_GeneratedPuzzleUnique ==
    lastCall.op \in Generators => countSolutions(lastCall.after, 2).solutionCount = 1

\* C2: in every carving routine a cell stays removed only if the grid right
\* after that removal has exactly one solution, for every difficulty.
C2_KeptRemovalsUnique ==
    lastCall.op \in Carvers =>
        \A k \in 1..Len(lastCall.args) : hasUniqueSolution(afterRemovals(k))

\* C3: for every puzzle made available for play, solveSudokuForGrid on a copy
\* of the carved grid succeeds and the completed grid is the stored solution.
C3_SolverReproducesSolution ==
    lastCall.op \in Sources =>
        solveSudokuForGrid(lastCall.after) = [ok |-> TRUE, grid |-> lastCall.before]

\* C4: once a puzzle is loaded, givenCells is true exactly for the non-zero
\* cells of the carved grid and every given cell holds the value the solution
\* has there; solveHint calls leave that so.
C4_GivensMatchSolution ==
    lastCall.op \in Sources =>
        /\ givenCells = givenMask(lastCall.after)
        /\ \A i \in Cells : cellAt(givenCells, i) =>
               /\ cellAt(grid, i) = cellAt(lastCall.after, i)
               /\ cellAt(grid, i) = cellAt(solution, i)

\* a puzzle the deferred load of newGame() put in place, two hints later
C4_Witness ==
    /\ lastCall.op \in {"createVariedPuzzle", "loadPuzzleFromDatabase"}
    /\ solution = lastCall.before
    /\ hintCount = 2
    /\ emptyCount(grid) + 2 = emptyCount(lastCall.after)

\* C6: the stored solution of every puzzle source is a complete grid in which
\* every row, column and 3x3 block holds each digit 1..9 exactly once.
C6_StoredSolutionValid ==
    lastCall.op \in Sources => solution = lastCall.before /\ isSolution(solution)

\* C5: once a puzzle is loaded no player operation changes the grid value of
\* a given cell: a step that leaves the givens and the pending loads as they
\* are leaves every given cell's value as it is.
C5_GivenCellsKeepValue ==
    [][(givenCells' = givenCells /\ pendingLoads' = pendingLoads) =>
           \A i \in Cells : cellAt(givenCells, i) => cellAt(grid', i) = cellAt(grid, i)]_vars

\* ------------------------------------------------- what the checks leave
\* C11: a uniqueness check never changes the grid of its caller: after
\* hasUniqueSolution() this.grid is what it was, and after countSolutions
\* the grid array it was given holds its contents of before the call, also
\* when the count stopped early at the limit.
C11_CountLeavesGrid ==
    lastCall.op \in {"countSolutions", "hasUniqueSolution"} =>
        (lastCall.after = lastCall.before /\ grid = lastCall.before)

\* a count that stopped at its limit on a grid with several cells to fill
C11_Witness ==
    /\ lastCall.op = "countSolutions"
    /\ lastCall.count = lastCall.args[1]
    /\ lastCall.args[1] >= 2
    /\ emptyCount(lastCall.before) >= 4
    /\ lastCall.after = lastCall.before

\* ------------------------------------------------------------------- hints
\* C12: whenever the hint search selects a cell and a digit, the cell is
\* empty and isValidMove accepts the digit for that cell on the current grid.
C12_HintIsValidPlacement ==
    [][hintCount' = hintCount + 1 =>
           \E i \in Cells :
               /\ cellAt(grid, i) = 0
               /\ cellAt(grid', i) # 0
               /\ isValidMove(grid, rowOf(i), colOf(i), cellAt(grid', i))]_vars

\* a hint given on a loaded puzzle that has no naked single: a hidden single
C12_Witness ==
    /\ lastCall.op \in Sources
    /\ hintCount = 1
    /\ nakedSingles(lastCall.after) = {}
    /\ emptyCount(grid) + 1 = emptyCount(lastCall.after)

\* C13 (as claimed): a hint request leaves the grid unchanged: after
\* solveHint every cell has the value it had before the call.
C13_HintLeavesGrid ==
    [][hintCount' > hintCount => grid' = grid]_vars

\* C13 (amended): a hint request that finds a hint fills in exactly the cell
\* it selected: that cell was empty and now holds a digit, and every other
\* cell has the value it had before the call.
C13_HintFillsOneCell ==
    [][hintCount' > hintCount =>
           \E i \in Cells :
               /\ cellAt(grid, i) = 0
               /\ cellAt(grid', i) \in Digits
               /\ \A j \in Cells \ {i} : cellAt(grid', j) = cellAt(grid, j)]_vars

\* a daily challenge two hints later: two of its empty cells are filled
C13_Witness ==
    /\ lastCall.op = "startDailyChallenge"
    /\ hintCount = 2
    /\ Cardinality({i \in Cells : cellAt(grid, i) # cellAt(lastCall.after, i)}) = 2
    /\ \A i \in Cells : cellAt(lastCall.after, i) # 0 => cellAt(grid, i) = cellAt(lastCall.after, i)

\* C14: hints are forced moves: if every filled cell of the grid equals the
\* stored solution, the digit solveHint fills in is the solution's digit for
\* that cell, so every filled cell still equals the solution afterwards.
agreesWithSolution(g) == \A i \in Cells : cellAt(g, i) # 0 => cellAt(g, i) = cellAt(solution, i)

C14_HintsAreForced ==
    [][(hintCount' > hintCount /\ agreesWithSolution(grid)) => agreesWithSolution(grid')]_vars

\* ---------------------------------------------------------------- the play
\* C15: whenever the game is declared won, the grid is completely filled and
\* no row, column or 3x3 block holds a digit twice.
C15_WonGridIsSolved ==
    [][(~isGameWon /\ isGameWon') => (isFull(grid') /\ validateGameState(grid'))]_vars

\* C16: in every state reached during play from a loaded puzzle by
\* placements, erasures, hints, undo and redo, no row, column or 3x3 block of
\* the grid holds the same digit twice.
C16_NoDuplicatesInPlay ==
    (lastCall.op \in Sources /\ pendingLoads = 0) => validateGameState(grid)

\* C17: a placement the validator rejects changes nothing but the error
\* counter: the grid, the move history and moveCount are as before and
\* errorCount is one more; and a placement that conflicts with a peer is
\* never the one committed.
C17_RejectedPlacementOnlyCounts ==
    [][/\ errorCount' > errorCount =>
              /\ errorCount' = errorCount + 1
              /\ grid' = grid
              /\ moveHistory' = moveHistory
              /\ historyIndex' = historyIndex
              /\ moveCount' = moveCount
       /\ moveCount' > moveCount =>
              \A i \in Cells : cellAt(grid', i) # cellAt(grid, i) =>
                  noOtherHolds(grid', rowOf(i), colOf(i), cellAt(grid', i))]_vars

\* a digit typed into an open cell of a nearly finished game was rejected
C17_Witness ==
    /\ errorCount = 1
    /\ lastCall.op = "loadPuzzleFromDatabase"
    /\ emptyCount(grid) <= Cardinality(EndOpen)
    /\ selectedCell = -1

\* -------------------------------------------------------------- termination
\* C18: clue removal always terminates, whatever the checks answer:
\* removeNumbers makes at most 500 rounds, removeNumbersForDifficulty at most
\* 5 attempts of at most 120 trials, createVariedPuzzle at most 81 trials and
\* generateVariedPuzzle at most 5 attempts, and every routine started returns.
C18_CarvingTerminates ==
    /\ [](/\ carving.rounds <= 500
          /\ carving.pc = "removeNumbersForDifficulty" =>
                 (carving.attempt <= 5 /\ carving.i <= 120)
          /\ carving.pc = "createVariedPuzzle" =>
                 (carving.attempt <= 5 /\ carving.i <= 81))
    /\ (carving.pc # "idle") ~> (carving.pc = "returned")

\* removeNumbers has used up its 500 rounds without reaching the target
C18_Witness ==
    /\ carving.routine = "removeNumbers"
    /\ carving.pc = "returned"
    /\ carving.rounds = 500
    /\ carving.removedCount < targetRemovalCount(carving.d)

\* ------------------------------------------------------ the seeded solution
\* the nine cells of the diagonal block at (b, b), row by row
blockSeq(g, b) == [k \in 1..N |-> g[b + ((k - 1) \div B)][b + ((k - 1) % B)]]

\* C19: generateCompleteSolution seeds each of the three diagonal blocks with
\* the permutation of 1..9 the random shuffle produced: each block holds every
\* digit once, arranged as shuffleArray arranged them for the random stream
\* (the stream explored repeats with a period that divides the draws of one
\* shuffle, so every block sees the same draws).
C19_BlocksHoldShuffle ==
    lastCall.op = "generateCompleteSolution" =>
        \A b \in {0, B, 2 * B} :
            /\ {blockSeq(lastCall.after, b)[k] : k \in 1..N} = Digits
            /\ blockSeq(lastCall.after, b) = shuffleArray([k \in 1..N |-> k], lastCall.args)

\* ------------------------------------------------------------ the fallback
\* what generateSimplePuzzle and the callback of newGame() make of the game
\* once generateFallbackPuzzle() has run: the second validation, with
\* useFallbackPuzzle() if it fails, and the marking of the non-zero cells
handedToPlay ==
    LET p == revalidated([grid |-> grid, solution |-> solution, givenCells |-> givenCells,
                          removed |-> lastCall.args, route |-> lastCall.op], difficulty) IN
    [p EXCEPT !.givenCells = [r \in Idx |-> [c \in Idx |->
                                 p.givenCells[r][c] \/ p.grid[r][c] # 0]]]

\* C20: when the carved puzzle has failed validatePuzzleCompletely (so that
\* removeNumbersForDifficulty has called generateFallbackPuzzle), the puzzle
\* handed to play is the static puzzle of the current difficulty, with its
\* own solution and its own given mask, never a freshly carved one.
C20_FailureYieldsVettedPuzzle ==
    lastCall.op = "generateFallbackPuzzle" =>
        /\ difficulty \in DOMAIN fallbackPuzzles
        /\ handedToPlay.grid = fallbackPuzzles[difficulty]
        /\ handedToPlay.solution = fallbackSolution
        /\ handedToPlay.givenCells = givenMask(handedToPlay.grid)

\* ------------------------------------------------- the serialized puzzles
\* A string is a sequence of characters. puzzleString[i] beyond the end of
\* the string is undefined; parseInt of anything but digits is NaN, a value
\* that is neither 0 nor a digit of the game.
NaN == -1
DigitChars == <<"1", "2", "3", "4", "5", "6", "7", "8", "9">>
PuzzleChars == {DigitChars[k] : k \in 1..N} \cup {"."}

charAt(str, i) == IF i < Len(str) THEN str[i + 1] ELSE "undefined"

parseInt(ch) ==
    IF ch = "0" THEN 0
    ELSE IF \E k \in 1..N : DigitChars[k] = ch
    THEN CHOOSE k \in 1..N : DigitChars[k] = ch
    ELSE NaN

\* the 81 characters of a grid, '.' for an empty cell
serialized(g) ==
    [k \in 1..(N * N) |-> IF cellAt(g, k - 1) = 0 THEN "." ELSE DigitChars[cellAt(g, k - 1)]]

\* loadPuzzleFromLibrary(puzzleString, solutionString): the three fields it
\* leaves behind
loadPuzzleFromLibrary(puzzleString, solutionString) ==
    [grid |-> [r \in Idx |-> [c \in Idx |->
                  IF charAt(puzzleString, r * N + c) # "."
                  THEN parseInt(charAt(puzzleString, r * N + c)) ELSE 0]],
     givenCells |-> [r \in Idx |-> [c \in Idx |-> charAt(puzzleString, r * N + c) # "."]],
     solution |-> [r \in Idx |-> [c \in Idx |-> parseInt(charAt(solutionString, r * N + c))]]]

\* Input strings: the serialization of a grid, as it is, cut short, with a
\* character too many, or with one character overwritten
MaxBadPositions == 2
BadPositionSeq == <<1, 41, 81>>
BadPositions == {BadPositionSeq[k] : k \in 1..Min(MaxBadPositions, Len(BadPositionSeq))}
BadChars == {"x", "0", "."}

stringsOf(g) ==
    {serialized(g), SubSeq(serialized(g), 1, N * N - 1), Append(serialized(g), "1")}
    \cup {[serialized(g) EXCEPT ![k] = ch] : k \in BadPositions, ch \in BadChars}

PuzzleStrings == stringsOf(endPuzzle.grid)
SolutionStrings == stringsOf(endPuzzle.solution)

CallLoadPuzzleFromLibrary(puzzleString, solutionString) ==
    /\ lastCall.op = "none"
    /\ LET r == loadPuzzleFromLibrary(puzzleString, solutionString) IN
       /\ grid' = r.grid
       /\ solution' = r.solution
       /\ givenCells' = r.givenCells
       /\ lastCall' = [call("loadPuzzleFromLibrary", grid, <<>>, TRUE, 0, r.grid)
                           EXCEPT !.args = <<puzzleString, solutionString>>]
    /\ UNCHANGED <<difficulty, playVars, carving, uncaughtError, notes, sessionVars>>

ReturnFromLoad ==
    /\ lastCall.op # "none"
    /\ lastCall' = noCall
    /\ UNCHANGED <<grid, solution, givenCells, difficulty, playVars, carving,
                   uncaughtError, notes, sessionVars>>

NextLoad ==
    \/ \E puzzleString \in PuzzleStrings, solutionString \in SolutionStrings :
           CallLoadPuzzleFromLibrary(puzzleString, solutionString)
    \/ ReturnFromLoad

SpecLoad == InitEnd /\ [][NextLoad]_vars

wellFormed(str, chars) == Len(str) = N * N /\ \A k \in 1..Len(str) : str[k] \in chars

\* C21: a call of loadPuzzleFromLibrary whose puzzle string or solution
\* string has not exactly 81 characters, or holds a character other than
\* '1'..'9' ('.' too in the puzzle string), leaves grid, solution and
\* givenCells as they were.
C21_MalformedLoadRefused ==
    [][(/\ lastCall'.op = "loadPuzzleFromLibrary"
        /\ lastCall.op = "none"
        /\ \/ ~wellFormed(lastCall'.args[1], PuzzleChars)
           \/ ~wellFormed(lastCall'.args[2], PuzzleChars \ {"."}))
       => UNCHANGED <<grid, solution, givenCells>>]_vars

\* C22: no handler ends in an uncaught exception: selectCell, inputNumber,
\* setNumber, setDifficulty and resetGame run to completion, also when
\* clearSelection() is executed while a cell is selected.
C22_NoUncaughtException == ~uncaughtError

\* C23: createVariedPuzzle never removes more than the removal target, so
\* the carved grid keeps at least the number of givens aimed at and the test
\* actualGivenCount >= 0.9 * targetGivenCount passes whatever the uniqueness
\* checks answer: generateVariedPuzzle returns from its first attempt and
\* generateReliablePuzzle reaches neither generateSimplePuzzle nor a fallback.
C23_VariedCarvingSucceeds ==
    carving.routine = "generateReliablePuzzle" =>
        /\ carving.removedCount <= targetRemovalCount(carving.d)
        /\ N * N - carving.removedCount >= difficulties[carving.d]
        /\ 10 * (N * N - carving.removedCount) >= 9 * difficulties[carving.d]
        /\ carving.attempt = 1
        /\ carving.pc \in {"createVariedPuzzle", "returned"}

\* generateReliablePuzzle has returned after a carving in which checks
\* refused removals until the positions ran out, short of the target
C23_Witness ==
    /\ carving.routine = "generateReliablePuzzle"
    /\ carving.pc = "returned"
    /\ carving.i = carving.len
    /\ carving.removedCount < targetRemovalCount(carving.d)

\* ------------------------------------------- the clock and the saved game
\* hasSavedGame(): the item is there and not older than 24 hours
hasSavedGame(item) == item.saved /\ item.hours <= 24

\* the callback of the auto-save interval: saveGameState()
saveGameState ==
    /\ autoSaveInterval
    /\ ~isGameWon
    /\ savedGame' = [saved |-> TRUE, hours |-> 0, grid |-> grid, notes |-> notes,
                     givenCells |-> givenCells, difficulty |-> difficulty,
                     moveCount |-> moveCount, errorCount |-> errorCount,
                     hintCount |-> hintCount]
    /\ UNCHANGED <<grid, solution, givenCells, difficulty, playVars, lastCall, carving,
                   uncaughtError, notes, timer, isPaused, orphanTimers,
                   autoSaveInterval>>

\* half a day passes; the age of the saved game is followed up to MaxHours
MaxHours == 36
hoursPass ==
    /\ savedGame.saved
    /\ savedGame.hours < MaxHours
    /\ savedGame' = [savedGame EXCEPT !.hours = @ + 12]
    /\ UNCHANGED <<grid, solution, givenCells, difficulty, playVars, lastCall, carving,
                   uncaughtError, notes, timer, isPaused, orphanTimers,
                   autoSaveInterval>>

\* resumeGame(): loadGameState()
resumeGame ==
    /\ savedGame.saved
    /\ IF savedGame.hours > 24
       THEN /\ savedGame' = noSavedGame
            /\ UNCHANGED <<grid, solution, givenCells, difficulty, playVars, lastCall,
                           carving, uncaughtError, notes, timer, isPaused,
                           orphanTimers, autoSaveInterval>>
       ELSE /\ grid' = savedGame.grid
            /\ notes' = savedGame.notes
            /\ difficulty' = savedGame.difficulty
            /\ moveCount' = savedGame.moveCount
            /\ errorCount' = savedGame.errorCount
            /\ hintCount' = savedGame.hintCount
            /\ givenCells' = savedGame.givenCells
            /\ startTimer
            /\ UNCHANGED <<solution, selectedCell, moveHistory, historyIndex, isGameWon,
                           isPaintMode, paintNumber, pendingLoads, lastCall, carving,
                           uncaughtError, savedGame>>

\* pauseTimer()
pauseTimer ==
    /\ timer /\ ~isPaused
    /\ timer' = FALSE
    /\ isPaused' = TRUE
    /\ UNCHANGED <<grid, solution, givenCells, difficulty, playVars, lastCall, carving,
                   uncaughtError, notes, orphanTimers, autoSaveInterval, savedGame>>

\* resumeTimer()
resumeTimer ==
    /\ isPaused
    /\ isPaused' = FALSE
    /\ timer' = TRUE
    /\ orphanTimers' = (orphanTimers \/ timer)
    /\ UNCHANGED <<grid, solution, givenCells, difficulty, playVars, lastCall, carving,
                   uncaughtError, notes, autoSaveInterval, savedGame>>

\* The end game with its storage: new games are started and loaded, the
\* auto-save fires, time passes, the saved game is resumed, the clock is
\* paused and resumed.
NextSession ==
    \/ newGame
    \/ \E pattern \in Patterns, rnd \in RandomStreams : deferredLoad(pattern, rnd)
    \/ saveGameState
    \/ hoursPass
    \/ resumeGame
    \/ pauseTimer
    \/ resumeTimer

SpecSession == InitEnd /\ [][NextSession]_vars

\* The end game with its clock: the player clicks cells and asks for hints
\* as in the end game, and pauses and resumes the clock.
NextClock ==
    \/ \E index \in EndCells : withinEnd /\ selectCell(index)
    \/ solveHint
    \/ pauseTimer
    \/ resumeTimer

SpecClock == InitEnd /\ [][NextClock]_vars

\* C24: a newGame() called while storage holds a saved game not older than
\* 24 hours resumes it: grid, notes, givenCells and the counters are those
\* of the saved game and no load of a new puzzle is scheduled.
C24_NewGameResumes ==
    [][(hasSavedGame(savedGame) /\ newGame) =>
          /\ grid' = savedGame.grid
          /\ notes' = savedGame.notes
          /\ givenCells' = savedGame.givenCells
          /\ moveCount' = savedGame.moveCount
          /\ errorCount' = savedGame.errorCount
          /\ hintCount' = savedGame.hintCount
          /\ pendingLoads' = pendingLoads]_vars

\* C29: at most one interval of startTimer/resumeTimer is live and this.timer
\* refers to it: no interval runs that stopTimer() can no longer clear.
C29_OneTimerInterval == ~orphanTimers

\* C30: once the game is won no timer interval runs: this.timer stays null,
\* whatever pauseTimer() and resumeTimer() are asked to do.
C30_NoClockAfterWin == isGameWon => ~timer

\* C28: an operation that fills the last empty cell of a grid without
\* conflicts declares the game won as part of itself: isGameWon is true
\* afterwards, the timer and the auto-save are stopped.
C28_LastCellWins ==
    [][(~isFull(grid) /\ isFull(grid') /\ validateGameState(grid'))
          => (isGameWon' /\ ~timer' /\ ~autoSaveInterval')]_vars

\* ------------------------------------------------------- the long history
\* The end game after the player has clicked the given 4 at cell 36 and then,
\* historyCycles times, placed the 4 into cell 34 with a click and erased it
\* with a right click: the history is three moves short of maxHistorySize.
\* From there the player clicks and right-clicks cell 34 for MaxHistoryMoves
\* further moves, takes back and redoes the last moves, and starts a new game.
MaxHistoryMoves == 4
historyCell == EndCellSeq[2]
historyDigit == cellAt(endPuzzle.grid, EndCellSeq[1])
historyCycles == (maxHistorySize - Len(endPlayed)) \div 2 - 1

historyStart ==
    [k \in 1..(Len(endPlayed) + 2 * historyCycles) |->
        IF k <= Len(endPlayed)
        THEN [type |-> "number", row |-> rowOf(endPlayed[k]), col |-> colOf(endPlayed[k]),
              value |-> cellAt(endPuzzle.solution, endPlayed[k]), oldValue |-> 0]
        ELSE [type |-> "number", row |-> rowOf(historyCell), col |-> colOf(historyCell),
              value |-> IF (k - Len(endPlayed)) % 2 = 1
                        THEN historyDigit ELSE 0,
              oldValue |-> IF (k - Len(endPlayed)) % 2 = 1
                           THEN 0 ELSE historyDigit]]

InitHistory ==
    /\ grid = blank(endPuzzle.solution, EndOpen)
    /\ solution = endPuzzle.solution
    /\ givenCells = endPuzzle.givenCells
    /\ difficulty = "easy"
    /\ selectedCell = -1
    /\ moveHistory = historyStart
    /\ historyIndex = Len(historyStart) - 1
    /\ moveCount = Len(historyStart)
    /\ errorCount = 0
    /\ hintCount = 0
    /\ isGameWon = FALSE
    /\ isPaintMode = TRUE
    /\ paintNumber = historyDigit
    /\ pendingLoads = 0
    /\ lastCall = produced(endPuzzle)
    /\ carving = noCarving
    /\ uncaughtError = FALSE
    /\ notes = noNotes
    /\ timer = TRUE
    /\ isPaused = FALSE
    /\ orphanTimers = FALSE
    /\ autoSaveInterval = TRUE
    /\ savedGame = noSavedGame

withinHistory == moveCount < Len(historyStart) + MaxHistoryMoves

NextHistory ==
    \/ withinHistory /\ selectCell(historyCell)
    \/ withinHistory /\ cellAt(grid, historyCell) # 0 /\ toggleNoteMode(historyCell)
    \/ historyIndex >= Len(moveHistory) - MaxHistoryMoves /\ undoMove
    \/ redoMove
    \/ newGame

SpecHistory == InitHistory /\ [][NextHistory]_vars

\* C26: -1 <= historyIndex <= moveHistory.length - 1 and moveHistory.length
\* <= maxHistorySize at all times; a move that is recorded is the last of the
\* history with historyIndex on it, also when the oldest move was dropped.
C26_HistoryWithinBounds ==
    /\ [](/\ -1 <= historyIndex
          /\ historyIndex <= Len(moveHistory) - 1
          /\ Len(moveHistory) <= maxHistorySize)
    /\ [][(moveHistory' # moveHistory /\ moveHistory' # <<>>)
             => historyIndex' = Len(moveHistory') - 1]_vars

\* more moves were recorded than the history holds: the oldest was dropped
C26_Witness ==
    /\ Len(moveHistory) = maxHistorySize
    /\ historyIndex = maxHistorySize - 1
    /\ moveCount > maxHistorySize
    /\ moveHistory[1] = historyStart[2]

\* ----------------------------------------------------------------- notes
\* The end game with notes: besides the play of the end game the player
\* right-clicks the cells of EndCells, which notes the paint number in an
\* empty cell or erases a filled one, for at most MaxNoteMoves recorded moves.
MaxNoteMoves == 2
withinNotes == withinEnd /\ Len(moveHistory) < Len(endPlayed) + MaxNoteMoves

NextNotes ==
    \/ \E index \in EndCells : withinEnd /\ selectCell(index)
    \/ \E index \in EndCells : withinNotes /\ toggleNoteMode(index)
    \/ historyIndex >= Len(endPlayed) /\ undoMove
    \/ redoMove
    \/ solveHint

SpecNotes == InitEnd /\ [][NextNotes]_vars

\* C25: every note stored in an empty cell is a legal candidate for that
\* cell: isValidMove accepts it on the grid as it stands.
C25_NotesAreCandidates ==
    \A r \in Idx, c \in Idx :
        grid[r][c] = 0 => \A noteNumber \in notes[r][c] : isValidMove(grid, r, c, noteNumber)

\* ------------------------------------------------------ undoing all moves
\* undoMove() until historyIndex is k - 1, from the grid g with historyIndex
\* on move k
RECURSIVE undoAll(_, _)
undoAll(g, k) ==
    IF k = 0 THEN g ELSE undoAll(executeMoveOn(g, moveHistory[k], TRUE), k - 1)

\* redoMove() for the moves k + 1, ..., until historyIndex is on the last
RECURSIVE redoAll(_, _)
redoAll(g, k) ==
    IF k >= Len(moveHistory) THEN g
    ELSE redoAll(executeMoveOn(g, moveHistory[k + 1], FALSE), k + 1)

\* C27: with a loaded puzzle in play, fewer than maxHistorySize moves
\* recorded and none of them taken back, undoing every recorded move gives
\* the grid the puzzle was loaded with, and redoing them all gives the grid
\* of before the undos.
C27_UndoInvertsPlay ==
    (/\ lastCall.op \in Sources
     /\ pendingLoads = 0
     /\ Len(moveHistory) < maxHistorySize
     /\ historyIndex = Len(moveHistory) - 1)
    => /\ undoAll(grid, Len(moveHistory)) = lastCall.after
       /\ redoAll(undoAll(grid, Len(moveHistory)), 0) = grid

====
